---- MODULE Spec2Model ----
(***************************************************************************)
(* Battleship server (src/server.py): the lobby queue, the matchmaker, the *)
(* match driver and the reconnect slot, as threads over shared state.      *)
(*                                                                         *)
(* A session is the number of its connection (1, 2, ...); the client-      *)
(* handler thread of connection h and the match driver that handler        *)
(* starts are both indexed by h.  Usernames are the numbers 1, 2, ...;     *)
(* None is 0.  What a peer does (answers a probe, acknowledges a frame,    *)
(* quits, stays silent) is the environment's choice.                       *)
(***************************************************************************)
EXTENDS Integers, Sequences, FiniteSets, TLC

\* ---------------------------------------------------------------- bounds
\* connections accepted in Spec
MaxConn == 3
\* distinct usernames the clients of Spec choose from
MaxNames == 2
\* connections accepted in SpecSerial
SerialConn == 4
\* connections accepted in SpecLobby
LobbyConn == 12
\* connections accepted in SpecTurns
TurnConn == 3
\* connections accepted in SpecChat
ChatConn == 4
\* unread lines of one client in SpecSend
MaxInbox == 2
\* calls of packet_send in SpecSend
MaxCalls == 2
\* characters of a frame body in SpecClient
MaxBody == 2
\* Board.size (BOARD_SIZE is 10 in battleship.py)
BOARD_SIZE == 2
\* calls of configure_game explored in Spec and SpecSerial
MaxRounds == 2
\* SpecLive: connections accepted
LiveConn == 3

\* ------------------------------------------------------ program constants
MAX_QUEUE_SIZE == 10
\* packet_send: `retry = 3`
RETRIES == 3
\* client.py run: `if len(command) > 100`
MAX_INPUT == 100

None == 0
Names == 1..MaxNames

VARIABLES
    client_queue,   \* GameServer.client_queue: sequence of sessions
    game_running,   \* GameServer.game_running
    dced_player,    \* GameServer.dced_player: a username or None
    rced_player,    \* GameServer.rced_player: a session or None
    lock,           \* GameServer.lock: None, or the thread that holds it
    cname,          \* cname[s]: the username the client of session s presents
    pc,             \* pc[h]: where handle_client of connection h stands
    player1,        \* configure_game's local player1, per handler
    game,           \* game[h]: the run_game thread started by handler h
    rounds,         \* history: calls of configure_game counted so far
    chat,           \* the react_to_chatroom threads: records [s, st]
    ps,             \* one connection seen from packet_send and the readers
    cl,             \* a BattleshipClient: its fields and its two threads
    net,            \* the frame in flight to that client and its answer
    bd,             \* a Board and the place_ships thread that fills it
    turn,           \* a call of run_multi_player_game_online on that board
    spawn           \* configure_game's open iterations over client_queue

vars == <<client_queue, game_running, dced_player, rced_player, lock, cname,
          pc, player1, game, rounds, chat, ps, cl, net, bd, turn, spawn>>

\* the shared state of GameServer and the locals of its threads
lobby == <<client_queue, game_running, dced_player, rced_player, lock, cname,
           pc, player1, game, rounds>>

\* the state that the lobby, matchmaker and match-driver actions leave alone
\* the board and the turn played on it
engine == <<bd, turn>>

aux == <<chat, ps, cl, net, bd, turn, spawn>>

\* aux without the open iterations
others == <<chat, ps, cl, net, bd, turn>>

\* the state that the chat-room actions leave alone
wire == <<ps, cl, net, bd, turn, spawn>>

Handlers == 1..Len(pc)

\* run_game's locals: players, boards, current_player, player1_skipped and
\* player2_skipped (skipped), the index of the player being waited for (dcIdx);
\* and three history fields: lastTimedOut[i]: player i's latest finished turn
\* was a timeout; forfeit: the player declared AFK; welcomed: the session the
\* latest "Welcome back" frame was written to; lastTurn: the player whose turn
\* was the latest to be completed or to time out (-1: nobody's yet).
NoGame == [gpc |-> "none", players |-> <<>>, current_player |-> 0,
           skipped |-> <<FALSE, FALSE>>, dcIdx |-> 0, boards |-> <<>>,
           lastTimedOut |-> <<FALSE, FALSE>>, forfeit |-> -1, welcomed |-> None,
           lastTurn |-> -1]

\* the run_game thread of handler g is alive
Alive(g) == game[g].gpc \notin {"none", "done"}

\* sessions held by a live match driver
MatchSessions(g) == IF Alive(g)
                    THEN {game[g].players[i] : i \in DOMAIN game[g].players}
                    ELSE {}

InQueue(s) == \E i \in DOMAIN client_queue : client_queue[i] = s

\* one connection: st is where packet_send stands ("idle": not called, "await":
\* frame written, waiting in select/readline, "ok": returned, "raised":
\* BrokenPipeError); retry is its local; inbox holds the lines the client has
\* written and the server has not read; frames counts the frames written to
\* the client that it has not answered; closed: the client closed the stream.
\* History: replies, what each attempt of the current call read; delivered, the
\* line the latest readline of a reader loop returned; calls, the calls made;
\* owed, the replies not yet read that answer frames written before the
\* current call; stale, the reply that the latest attempt read was one of them.
NoSend == [st |-> "idle", retry |-> 0, inbox |-> <<>>, frames |-> 0,
           closed |-> FALSE, replies |-> <<>>, delivered |-> "none", calls |-> 0,
           owed |-> 0, stale |-> FALSE]

\* BattleshipClient.__init__ (client.py lines 27-30) and its threads: rx is
\* the receiver thread ("recv": in its loop, "dead": ended by an uncaught
\* exception, "ended": left the loop), main the thread of run() ("input":
\* blocked in input(), "done": left the loop); typed is the command the
\* latest input() returned and wrote the line that step wrote to the server
NewClient == [running |-> TRUE, playing |-> TRUE, can_input |-> FALSE,
              stop_spam |-> FALSE, rx |-> "recv", main |-> "input",
              typed |-> "none", wrote |-> "none"]

\* nothing in flight: line is the line on its way to the client (<<>>: none),
\* sent the (tag, body) packet_send was called with, tampered whether the line
\* was changed on the way, reply what the client wrote back for it and shown
\* the tag it acted on and the text it printed
NoFrame == [line |-> <<>>, sent |-> <<>>, tampered |-> FALSE, reply |-> "",
            shown |-> <<>>]

\* the ships to place (battleship.py SHIPS holds five, of sizes 5 to 2, for
\* its board of 10 by 10)
SHIPS == <<[name |-> "Destroyer", size |-> 2], [name |-> "Raft", size |-> 1]>>

\* the cells of a board
Cells == (0..(BOARD_SIZE - 1)) \X (0..(BOARD_SIZE - 1))

\* Board.__init__ (battleship.py lines 47-53) and the thread of place_ships
\* working on it: worker is where place_ships_manually_mp stands ("placing",
\* "finished", "timeout": it raised TimeoutError, "raised": it ended by another
\* exception); answer is what it sent for the latest line and prompted
\* whether that ended with the tag-1 prompt of send_instructions.
\* History: shot, the cells for which fire_at returned hit or miss.
NewBoard == [hidden_grid |-> [x \in Cells |-> "."],
             display_grid |-> [x \in Cells |-> "."],
             placed_ships |-> <<>>,
             worker |-> "placing", answer |-> "none", prompted |-> TRUE,
             shot |-> {}]

\* no call of run_multi_player_game_online in progress: st is where the call
\* stands ("idle", "poll": in its loop, "done": returned), timed_out its local
\* flag, result what it returned, reply the frame the latest poll sent to the
\* active player, fire what the call of fire_at made by the latest poll
\* returned (NoFire: it made none)
NoFire == [cell |-> <<>>, result |-> "none", sunk |-> ""]

\* a line read in a poll: nothing, quit, a chat line, or any other text
NoLine == [kind |-> "none", text |-> <<>>]
QuitLine == [kind |-> "quit", text |-> <<>>]
ChatLine == [kind |-> "chat", text |-> <<>>]
TextLine(t) == [kind |-> "text", text |-> t]

\* command and other_command are the lines the latest poll read
NoTurn == [st |-> "idle", timed_out |-> FALSE, result |-> "none",
           reply |-> "none", fire |-> NoFire,
           command |-> NoLine, other_command |-> NoLine]

Init ==
    /\ client_queue = <<>>
    /\ game_running = FALSE
    /\ dced_player = None
    /\ rced_player = None
    /\ lock = None
    /\ cname = <<>>
    /\ pc = <<>>
    /\ player1 = <<>>
    /\ game = <<>>
    /\ rounds = 0
    /\ chat = {}
    /\ ps = NoSend
    /\ cl = NewClient
    /\ net = NoFrame
    /\ bd = NewBoard
    /\ turn = NoTurn
    /\ spawn = {}

\* main(): accept a connection and start its handle_client thread; u is the
\* username this client will present when asked.
Connect(u) ==
    /\ cname' = Append(cname, u)
    /\ pc' = Append(pc, "start")
    /\ player1' = Append(player1, None)
    /\ game' = Append(game, NoGame)
    /\ UNCHANGED <<client_queue, game_running, dced_player, rced_player, lock, rounds>>

\* handle_client: `with self.lock:`
AcquireLock(h) ==
    /\ pc[h] = "start"
    /\ lock = None
    /\ lock' = h
    /\ pc' = [pc EXCEPT ![h] = "locked"]
    /\ UNCHANGED <<client_queue, game_running, dced_player, rced_player, cname,
                   player1, game, rounds>>

\* a capacity test that is off by one
QueueHasRoomInclusive(q) == Len(q) <= MAX_QUEUE_SIZE

\* handle_client line 96: the capacity test
QueueHasRoom(q) == Len(q) < MAX_QUEUE_SIZE

\* handle_client lines 96-106, the body of `with self.lock:`.  prompted: the
\* username prompt was acknowledged (else packet_send raises BrokenPipeError and
\* the thread ends); queued: the "You're in queue" frame was acknowledged (else
\* the thread ends with the session left in the queue).  pc "refused": the
\* thread ended after the queue-full notice.
Handle(h, prompted, queued) ==
    /\ pc[h] = "locked"
    /\ lock = h
    /\ lock' = None
    /\ IF QueueHasRoom(client_queue)
       THEN IF ~prompted
            THEN /\ pc' = [pc EXCEPT ![h] = "done"]
                 /\ UNCHANGED <<client_queue, rced_player>>
            ELSE IF cname[h] = dced_player
                 THEN /\ rced_player' = h
                      /\ pc' = [pc EXCEPT ![h] = "done"]
                      /\ UNCHANGED client_queue
                 ELSE /\ client_queue' = Append(client_queue, h)
                      /\ pc' = [pc EXCEPT ![h] = IF queued THEN "test_gr" ELSE "done"]
                      /\ UNCHANGED rced_player
       ELSE /\ pc' = [pc EXCEPT ![h] = "refused"]
            /\ UNCHANGED <<client_queue, rced_player>>
    /\ UNCHANGED <<game_running, dced_player, cname, player1, game, rounds>>

\* handle_client line 117, first operand: `not self.game_running`
TestRunning(h) ==
    /\ pc[h] = "test_gr"
    /\ pc' = [pc EXCEPT ![h] = IF game_running THEN "done" ELSE "test_len"]
    /\ UNCHANGED <<client_queue, game_running, dced_player, rced_player, lock,
                   cname, player1, game, rounds>>

\* handle_client line 117, second operand: `len(self.client_queue) >= 2`
TestLen(h) ==
    /\ pc[h] = "test_len"
    /\ pc' = [pc EXCEPT ![h] = IF Len(client_queue) >= 2 THEN "set" ELSE "done"]
    /\ UNCHANGED <<client_queue, game_running, dced_player, rced_player, lock,
                   cname, player1, game, rounds>>

\* handle_client line 118: `self.game_running = True`, then configure_game()
\* (the call is counted in rounds).
SetRunning(h) ==
    /\ pc[h] = "set"
    /\ game_running' = TRUE
    /\ rounds' = rounds + 1
    /\ pc' = [pc EXCEPT ![h] = "cfg1"]
    /\ UNCHANGED <<client_queue, dced_player, rced_player, lock, cname, player1,
                   game>>

\* a not-enough-players return that forgets to clear the flag
RunningLeftSet == game_running

\* configure_game lines 144 and 168: the flag on the not-enough-players return
RunningAfterExhausted == FALSE

\* configure_game lines 142-145: the length test of the first loop
Cfg1Check(h) ==
    /\ pc[h] = "cfg1"
    /\ IF Len(client_queue) < 2
       THEN /\ game_running' = RunningAfterExhausted
            /\ pc' = [pc EXCEPT ![h] = "test_gr"]
       ELSE /\ pc' = [pc EXCEPT ![h] = "pop1"]
            /\ UNCHANGED game_running
    /\ UNCHANGED <<client_queue, dced_player, rced_player, lock, cname, player1,
                   game, rounds>>

\* configure_game lines 147-158: popleft and the liveness probe of player 1.
\* live: the client echoed ACK.  popleft of an empty deque raises IndexError,
\* which nothing catches: the handler thread ends.
Pop1(h, live) ==
    /\ pc[h] = "pop1"
    /\ IF client_queue = <<>>
       THEN /\ pc' = [pc EXCEPT ![h] = "done"]
            /\ UNCHANGED <<client_queue, player1>>
       ELSE /\ client_queue' = Tail(client_queue)
            /\ player1' = [player1 EXCEPT ![h] = IF live THEN Head(client_queue) ELSE @]
            /\ pc' = [pc EXCEPT ![h] = IF live THEN "cfg2" ELSE "cfg1"]
    /\ UNCHANGED <<game_running, dced_player, rced_player, lock, cname, game, rounds>>

\* configure_game lines 165-169: the length test of the second loop; an
\* exhausted queue puts player1 back at the front.
Cfg2Check(h) ==
    /\ pc[h] = "cfg2"
    /\ IF Len(client_queue) < 1
       THEN /\ client_queue' = <<player1[h]>> \o client_queue
            /\ game_running' = RunningAfterExhausted
            /\ pc' = [pc EXCEPT ![h] = "test_gr"]
       ELSE /\ pc' = [pc EXCEPT ![h] = "pop2"]
            /\ UNCHANGED <<client_queue, game_running>>
    /\ UNCHANGED <<dced_player, rced_player, lock, cname, player1, game, rounds>>

\* configure_game lines 171-189: popleft and probe of player 2; with two live
\* players the run_game thread is started and the handler waits in join().
Pop2(h, live) ==
    /\ pc[h] = "pop2"
    /\ IF client_queue = <<>>
       THEN /\ pc' = [pc EXCEPT ![h] = "done"]
            /\ UNCHANGED <<client_queue, game, player1>>
       ELSE /\ client_queue' = Tail(client_queue)
            /\ IF live
               THEN /\ game' = [game EXCEPT ![h] =
                           [NoGame EXCEPT !.gpc = "welcome",
                                          !.players = <<player1[h], Head(client_queue)>>]]
                    /\ player1' = [player1 EXCEPT ![h] = None]
                    /\ pc' = [pc EXCEPT ![h] = "join"]
               ELSE /\ pc' = [pc EXCEPT ![h] = "cfg2"]
                    /\ UNCHANGED <<game, player1>>
    /\ UNCHANGED <<game_running, dced_player, rced_player, lock, cname,
                   rounds>>

\* configure_game lines 199-202: join() returned; clear the flag, sleep, and
\* back to the test of handle_client's while loop.
JoinReturn(h) ==
    /\ pc[h] = "join"
    /\ ~Alive(h)
    /\ game_running' = FALSE
    /\ game' = [game EXCEPT ![h] = NoGame]
    /\ pc' = [pc EXCEPT ![h] = "test_gr"]
    /\ UNCHANGED <<client_queue, dced_player, rced_player, lock, cname, player1, rounds>>

\* -------------------------------------------------------------- run_game

TurnResults == {"game_finished", "all_forfeit", "player_dc", "other_player_dc",
                "turn_completed", "timeout", "broken"}

\* run_game lines 216-221: the broadcast (under the lock) and the two welcome
\* frames.  acked = FALSE: a welcome frame raises BrokenPipeError; the handler
\* at line 375 catches it, and line 382 then reads `players`, which is not yet
\* bound: the thread ends with that error and requeues nobody.
GWelcome(g, acked) ==
    /\ game[g].gpc = "welcome"
    /\ lock = None
    /\ game' = [game EXCEPT ![g].gpc = IF acked THEN "placement" ELSE "done"]
    /\ UNCHANGED <<client_queue, game_running, dced_player, rced_player, lock,
                   cname, pc, player1, rounds>>

\* run_game lines 224-243 and 264-269: both place_ships threads have ended;
\* b0, b1 say whether boards[0], boards[1] were placed; first is
\* random.randint(0, 1).
GPlacement(g, b0, b1, first) ==
    /\ game[g].gpc = "placement"
    /\ game' = [game EXCEPT ![g] =
                  IF b0 /\ b1
                  THEN [@ EXCEPT !.gpc = "turn", !.current_player = first,
                                 !.skipped = <<FALSE, FALSE>>]
                  ELSE [@ EXCEPT !.gpc = "cancel", !.boards = <<b0, b1>>]]
    /\ UNCHANGED <<client_queue, game_running, dced_player, rced_player, lock,
                   cname, pc, player1, rounds>>

\* run_game lines 244-259: the cancelled match.  broadcast_board_to_spectators
\* is called with a str: with a spectator in the queue, line 68 raises
\* AttributeError, which nothing catches, and the thread ends.  With an empty
\* queue the survivor (if any) is sent the notice and put at the front; a
\* BrokenPipeError of that send is caught at line 375 and the thread goes on at
\* line 378.
GCancel(g, acked) ==
    LET P == game[g].players
        B == game[g].boards
        surv == {i \in DOMAIN P : B[i]}
    IN
    /\ game[g].gpc = "cancel"
    /\ lock = None
    /\ IF client_queue # <<>>
       THEN /\ game' = [game EXCEPT ![g] = [NoGame EXCEPT !.gpc = "done"]]
            /\ UNCHANGED client_queue
       ELSE IF surv = {}
            THEN /\ game' = [game EXCEPT ![g] = [NoGame EXCEPT !.gpc = "done"]]
                 /\ UNCHANGED client_queue
            ELSE IF acked
                 THEN /\ client_queue' = <<P[CHOOSE i \in surv : TRUE]>> \o client_queue
                      /\ game' = [game EXCEPT ![g] = [NoGame EXCEPT !.gpc = "done"]]
                 ELSE /\ game' = [game EXCEPT ![g].gpc = "ending"]
                      /\ UNCHANGED client_queue
    /\ UNCHANGED <<game_running, dced_player, rced_player, lock, cname, pc,
                   player1, rounds>>

\* the skipped flags tested as if the swap at line 351 had not happened
SkipFlagUnswapped(cur) == IF cur = 1 THEN 1 ELSE 0

\* run_game lines 359-366: after the swap at line 351, the skipped flag that is
\* tested (0: player1_skipped, 1: player2_skipped)
SkipFlagOf(cur) == IF cur = 1 THEN 0 ELSE 1

\* the player in turn stays in turn
SamePlayer(cur) == cur

\* run_game line 351: `current_player = 1 - current_player`
NextPlayer(cur) == 1 - cur

\* run_game lines 271-372: one iteration of the turn loop.  result is what
\* run_multi_player_game_online returned ("broken": it raised BrokenPipeError,
\* caught at line 375).  A BrokenPipeError of the forfeit notice at line 368
\* leaves the loop as the break at line 372 does.
GTurn(g, result) ==
    LET G == game[g]
        cur == G.current_player
        nxt == 1 - cur
        swapped == NextPlayer(cur)
        flag == SkipFlagOf(swapped)
        G0 == [G EXCEPT !.welcomed = None]
    IN
    /\ G.gpc = "turn"
    /\ lock = None
    /\ CASE result = "game_finished" ->
              /\ game' = [game EXCEPT ![g] = [G0 EXCEPT !.gpc = "ending"]]
              /\ UNCHANGED dced_player
         [] result = "all_forfeit" ->
              /\ game' = [game EXCEPT ![g] = [G0 EXCEPT !.gpc = "ending", !.players = <<>>]]
              /\ UNCHANGED dced_player
         [] result = "player_dc" ->
              /\ dced_player' = cname[G.players[cur + 1]]
              /\ game' = [game EXCEPT ![g] = [G0 EXCEPT !.gpc = "reconnect", !.dcIdx = cur]]
         [] result = "other_player_dc" ->
              /\ dced_player' = cname[G.players[nxt + 1]]
              /\ game' = [game EXCEPT ![g] = [G0 EXCEPT !.gpc = "reconnect", !.dcIdx = nxt]]
         [] result = "turn_completed" ->
              /\ game' = [game EXCEPT ![g] =
                            [G0 EXCEPT !.skipped[cur + 1] = FALSE,
                                       !.current_player = swapped,
                                       !.lastTimedOut[cur + 1] = FALSE,
                                       !.lastTurn = cur]]
              /\ UNCHANGED dced_player
         [] result = "timeout" ->
              /\ game' = [game EXCEPT ![g] =
                            IF ~G.skipped[flag + 1]
                            THEN [G0 EXCEPT !.skipped[flag + 1] = TRUE,
                                            !.current_player = swapped,
                                            !.lastTimedOut[cur + 1] = TRUE,
                                            !.lastTurn = cur]
                            ELSE [G0 EXCEPT !.gpc = "ending",
                                            !.current_player = swapped,
                                            !.lastTimedOut[cur + 1] = TRUE,
                                            !.forfeit = cur,
                                            !.lastTurn = cur]]
              /\ UNCHANGED dced_player
         [] OTHER ->
              /\ game' = [game EXCEPT ![g] = [G0 EXCEPT !.gpc = "ending"]]
              /\ UNCHANGED dced_player
    /\ UNCHANGED <<client_queue, game_running, rced_player, lock, cname, pc,
                   player1, rounds>>

\* client_reconnected lines 127-129: every player whose username equals the
\* slot session's username is replaced by the slot session r
Replaced(P, r) ==
    [i \in DOMAIN P |-> IF cname[P[i]] = cname[r] THEN r ELSE P[i]]

\* a claim that forgets to empty the slot
SlotKeptAfterClaim == rced_player

\* client_reconnected line 130: the slot after a claim
SlotAfterClaim == None

\* run_game lines 282, 286, 312, 322: the session whose reader and writer the
\* "Welcome back" frame is written to, taken from the locals bound at the start
\* of the iteration, before client_reconnected replaced the entry of `players`
WelcomeTarget(g) == game[g].players[game[g].dcIdx + 1]

\* client_reconnected lines 126-132 with run_game lines 311-313 / 321-323: a
\* poll that finds the slot filled.  acked: the "Welcome back" frame was
\* acknowledged (else BrokenPipeError, caught at line 375).
GPollClaim(g, acked) ==
    LET G == game[g] IN
    /\ G.gpc = "reconnect"
    /\ rced_player # None
    /\ game' = [game EXCEPT ![g] =
                  [G EXCEPT !.gpc = IF acked THEN "turn" ELSE "ending",
                            !.players = Replaced(G.players, rced_player),
                            !.dcIdx = 0,
                            !.welcomed = WelcomeTarget(g)]]
    /\ rced_player' = SlotAfterClaim
    /\ dced_player' = None
    /\ UNCHANGED <<client_queue, game_running, lock, cname, pc, player1, rounds>>

\* sequence P without its entry at (1-based) index i: list.pop(i - 1)
Without(P, i) == [j \in 1..(Len(P) - 1) |-> IF j < i THEN P[j] ELSE P[j + 1]]

\* client_reconnected lines 125-134 with run_game lines 314-316 / 324-326: all
\* 60 polls found the slot empty (no session arrived during the 60 s); the
\* disconnected player is popped and the loop left.  The polls that miss change
\* nothing, so the wait is one step, taken while the slot is empty.
\* dced_player is not reset.
GPollFail(g) ==
    LET G == game[g] IN
    /\ G.gpc = "reconnect"
    /\ rced_player = None
    /\ game' = [game EXCEPT ![g] =
                  [G EXCEPT !.gpc = "ending", !.dcIdx = 0,
                            !.players = Without(G.players, G.dcIdx + 1)]]
    /\ UNCHANGED <<client_queue, game_running, dced_player, rced_player, lock,
                   cname, pc, player1, rounds>>

\* the entries of P at the indices in conn, in order
Kept(P, conn) ==
    LET idx == {i \in DOMAIN P : i \in conn} IN
    IF idx = {} THEN <<>>
    ELSE IF idx = DOMAIN P THEN P
    ELSE <<P[CHOOSE i \in idx : TRUE]>>

\* run_game lines 378-402.  conn: the players whose conn.getpeername() does
\* not raise; won: the "You win" frame of line 394 was acknowledged; k: how
\* many "back in the queue" frames of line 400 were acknowledged before one
\* raised BrokenPipeError (nothing catches it here: the thread ends, the
\* players appended so far stay appended).
GEnding(g, conn, won, k) ==
    LET rem == Kept(game[g].players, conn)
        n == IF k < Len(rem) THEN k ELSE Len(rem)
    IN
    /\ game[g].gpc = "ending"
    /\ lock = None
    /\ game' = [game EXCEPT ![g] = [NoGame EXCEPT !.gpc = "done"]]
    /\ IF Len(rem) = 1 /\ ~won
       THEN UNCHANGED client_queue
       ELSE client_queue' = client_queue \o SubSeq(rem, 1, n)
    /\ UNCHANGED <<game_running, dced_player, rced_player, lock, cname, pc,
                   player1, rounds>>

\* ---------------------------------------------------------- specification

\* the usernames in use
UsedNames == {cname[i] : i \in DOMAIN cname}

\* Names are interchangeable: a client presents a name already in use or the
\* least name not yet in use.
NextNames == {u \in Names : \A v \in Names : v < u => v \in UsedNames}

\* turn results that end the turn loop or start a reconnect wait
ExitResults == TurnResults \ {"turn_completed", "timeout"}

\* Spec: clients connect at any time and handlers interleave freely.  The turn
\* results that only change the match's own locals (current_player, the skipped
\* flags) are explored in SpecSerial and SpecTurns.
Next ==
    \/ \E u \in NextNames : Len(pc) < MaxConn /\ Connect(u) /\ UNCHANGED aux
    \/ \E h \in Handlers : AcquireLock(h) /\ UNCHANGED aux
    \/ \E h \in Handlers, a, b \in BOOLEAN : Handle(h, a, b) /\ UNCHANGED aux
    \/ \E h \in Handlers : TestRunning(h) /\ UNCHANGED aux
    \/ \E h \in Handlers : TestLen(h) /\ UNCHANGED aux
    \/ \E h \in Handlers : rounds < MaxRounds /\ SetRunning(h) /\ UNCHANGED aux
    \/ \E h \in Handlers : Cfg1Check(h) /\ UNCHANGED aux
    \/ \E h \in Handlers, live \in BOOLEAN : Pop1(h, live) /\ UNCHANGED aux
    \/ \E h \in Handlers : Cfg2Check(h) /\ UNCHANGED aux
    \/ \E h \in Handlers, live \in BOOLEAN : Pop2(h, live) /\ UNCHANGED aux
    \/ \E h \in Handlers : JoinReturn(h) /\ UNCHANGED aux
    \/ \E g \in Handlers, a \in BOOLEAN : GWelcome(g, a) /\ UNCHANGED aux
    \/ \E g \in Handlers, b0, b1 \in BOOLEAN, f \in {0, 1} :
          GPlacement(g, b0, b1, f) /\ UNCHANGED aux
    \/ \E g \in Handlers, a \in BOOLEAN : GCancel(g, a) /\ UNCHANGED aux
    \/ \E g \in Handlers, r \in ExitResults : GTurn(g, r) /\ UNCHANGED aux
    \/ \E g \in Handlers, a \in BOOLEAN : GPollClaim(g, a) /\ UNCHANGED aux
    \/ \E g \in Handlers : GPollFail(g) /\ UNCHANGED aux
    \/ \E g \in Handlers, conn \in SUBSET {1, 2}, w \in BOOLEAN, k \in 0..2 :
          GEnding(g, conn, w, k) /\ UNCHANGED aux

Spec == Init /\ [][Next]_vars

\* no handler thread is between accept and its end or its join()
Quiet == \A h \in Handlers : pc[h] \in {"done", "refused", "join"}

\* SpecSerial: clients connect one after the other (each handler runs to its end
\* or to join() before the next connection); every turn result is explored.
NextSerial ==
    \/ \E u \in NextNames : Quiet /\ Len(pc) < SerialConn /\ Connect(u) /\ UNCHANGED aux
    \/ \E h \in Handlers : AcquireLock(h) /\ UNCHANGED aux
    \/ \E h \in Handlers, a, b \in BOOLEAN : Handle(h, a, b) /\ UNCHANGED aux
    \/ \E h \in Handlers : TestRunning(h) /\ UNCHANGED aux
    \/ \E h \in Handlers : TestLen(h) /\ UNCHANGED aux
    \/ \E h \in Handlers : rounds < MaxRounds /\ SetRunning(h) /\ UNCHANGED aux
    \/ \E h \in Handlers : Cfg1Check(h) /\ UNCHANGED aux
    \/ \E h \in Handlers, live \in BOOLEAN : Pop1(h, live) /\ UNCHANGED aux
    \/ \E h \in Handlers : Cfg2Check(h) /\ UNCHANGED aux
    \/ \E h \in Handlers, live \in BOOLEAN : Pop2(h, live) /\ UNCHANGED aux
    \/ \E h \in Handlers : JoinReturn(h) /\ UNCHANGED aux
    \/ \E g \in Handlers, a \in BOOLEAN : GWelcome(g, a) /\ UNCHANGED aux
    \/ \E g \in Handlers, b0, b1 \in BOOLEAN, f \in {0, 1} :
          GPlacement(g, b0, b1, f) /\ UNCHANGED aux
    \/ \E g \in Handlers, a \in BOOLEAN : GCancel(g, a) /\ UNCHANGED aux
    \/ \E g \in Handlers, r \in TurnResults : GTurn(g, r) /\ UNCHANGED aux
    \/ \E g \in Handlers, a \in BOOLEAN : GPollClaim(g, a) /\ UNCHANGED aux
    \/ \E g \in Handlers : GPollFail(g) /\ UNCHANGED aux
    \/ \E g \in Handlers, conn \in SUBSET {1, 2}, w \in BOOLEAN, k \in 0..2 :
          GEnding(g, conn, w, k) /\ UNCHANGED aux

SpecSerial == Init /\ [][NextSerial]_vars

\* SpecTurns: one match with every turn result.  Clients connect one after the
\* other; the first call of configure_game is explored to its end.
NextTurns ==
    \/ \E u \in NextNames : Quiet /\ Len(pc) < TurnConn /\ Connect(u) /\ UNCHANGED aux
    \/ \E h \in Handlers : AcquireLock(h) /\ UNCHANGED aux
    \/ \E h \in Handlers, a, b \in BOOLEAN : Handle(h, a, b) /\ UNCHANGED aux
    \/ \E h \in Handlers : TestRunning(h) /\ UNCHANGED aux
    \/ \E h \in Handlers : TestLen(h) /\ UNCHANGED aux
    \/ \E h \in Handlers : rounds = 0 /\ SetRunning(h) /\ UNCHANGED aux
    \/ \E h \in Handlers : Cfg1Check(h) /\ UNCHANGED aux
    \/ \E h \in Handlers, live \in BOOLEAN : Pop1(h, live) /\ UNCHANGED aux
    \/ \E h \in Handlers : Cfg2Check(h) /\ UNCHANGED aux
    \/ \E h \in Handlers, live \in BOOLEAN : Pop2(h, live) /\ UNCHANGED aux
    \/ \E h \in Handlers : JoinReturn(h) /\ UNCHANGED aux
    \/ \E g \in Handlers, a \in BOOLEAN : GWelcome(g, a) /\ UNCHANGED aux
    \/ \E g \in Handlers, b0, b1 \in BOOLEAN, f \in {0, 1} :
          GPlacement(g, b0, b1, f) /\ UNCHANGED aux
    \/ \E g \in Handlers, a \in BOOLEAN : GCancel(g, a) /\ UNCHANGED aux
    \/ \E g \in Handlers, r \in TurnResults : GTurn(g, r) /\ UNCHANGED aux
    \/ \E g \in Handlers, a \in BOOLEAN : GPollClaim(g, a) /\ UNCHANGED aux
    \/ \E g \in Handlers : GPollFail(g) /\ UNCHANGED aux
    \/ \E g \in Handlers, conn \in SUBSET {1, 2}, w \in BOOLEAN, k \in 0..2 :
          GEnding(g, conn, w, k) /\ UNCHANGED aux

SpecTurns == Init /\ [][NextTurns]_vars

\* SpecLobby: a new client presents a name of its own (its connection number)
\* or, once, the username recorded as disconnected.
LobbyNames ==
    {Len(pc) + 1} \cup (IF dced_player # None /\ \A i \in DOMAIN cname : cname[i] = i
                        THEN {dced_player} ELSE {})

\* SpecLobby: the lobby filling up around the first match.  Clients connect one
\* after the other, answer the liveness probe and acknowledge the handler's
\* frames; the first call of configure_game is explored to its end.
NextLobby ==
    \/ \E u \in LobbyNames : Quiet /\ Len(pc) < LobbyConn /\ Connect(u) /\ UNCHANGED aux
    \/ \E h \in Handlers : AcquireLock(h) /\ UNCHANGED aux
    \/ \E h \in Handlers : Handle(h, TRUE, TRUE) /\ UNCHANGED aux
    \/ \E h \in Handlers : TestRunning(h) /\ UNCHANGED aux
    \/ \E h \in Handlers : TestLen(h) /\ UNCHANGED aux
    \/ \E h \in Handlers : rounds = 0 /\ SetRunning(h) /\ UNCHANGED aux
    \/ \E h \in Handlers : Cfg1Check(h) /\ UNCHANGED aux
    \/ \E h \in Handlers : Pop1(h, TRUE) /\ UNCHANGED aux
    \/ \E h \in Handlers : Cfg2Check(h) /\ UNCHANGED aux
    \/ \E h \in Handlers : Pop2(h, TRUE) /\ UNCHANGED aux
    \/ \E h \in Handlers : JoinReturn(h) /\ UNCHANGED aux
    \/ \E g \in Handlers, a \in BOOLEAN : GWelcome(g, a) /\ UNCHANGED aux
    \/ \E g \in Handlers, b0, b1 \in BOOLEAN, f \in {0, 1} :
          GPlacement(g, b0, b1, f) /\ UNCHANGED aux
    \/ \E g \in Handlers, a \in BOOLEAN : GCancel(g, a) /\ UNCHANGED aux
    \/ \E g \in Handlers, r \in ExitResults : GTurn(g, r) /\ UNCHANGED aux
    \/ \E g \in Handlers, a \in BOOLEAN : GPollClaim(g, a) /\ UNCHANGED aux
    \/ \E g \in Handlers : GPollFail(g) /\ UNCHANGED aux
    \/ \E g \in Handlers, conn \in SUBSET {1, 2}, w \in BOOLEAN, k \in 0..2 :
          GEnding(g, conn, w, k) /\ UNCHANGED aux

SpecLobby == Init /\ [][NextLobby]_vars

\* ------------------------------------------------------ react_to_chatroom

\* a react_to_chatroom thread bound to session s; st is where it stands:
\* "greet" (lines 74-76: packet_send of the three greeting frames, awaiting the
\* session's ACK), "relay" (the loop of lines 79-83), "cast" (inside
\* broadcast_to_spectators, called at line 83), "closing" (line 85: packet_send
\* of the closing frame, awaiting the ACK)
\* History: out, the frames the thread's latest broadcast wrote, in the order
\* of the queue.
ChatThread(s, st) == [s |-> s, st |-> st, out |-> <<>>]

\* broadcast_to_spectators lines 56-59: the tag of the frame written to a
\* member named uname when the broadcast is made for host (4: the echo
\* "You: <msg>", 3: "<host>: <msg>")
FrameTag(uname, host) == IF uname = host THEN 4 ELSE 3

\* broadcast_to_spectators lines 53-61: one frame for every session of the
\* queue q, in queue order
Broadcast(q, host) ==
    [i \in DOMAIN q |-> [to |-> q[i], tag |-> FrameTag(cname[q[i]], host),
                         host |-> host]]

\* handle_client lines 95-114: the body of `with self.lock:`, then a chat
\* thread is started for the session if a game is running
HandleChat(h, prompted, queued) ==
    /\ Handle(h, prompted, queued)
    /\ chat' = IF pc'[h] = "test_gr" /\ game_running
               THEN chat \cup {ChatThread(h, "greet")}
               ELSE chat

\* configure_game lines 171-197: with two live players the game thread is
\* started, then one chat thread for every session left in the queue
Pop2Chat(h, live) ==
    /\ Pop2(h, live)
    /\ chat' = IF pc'[h] = "join"
               THEN chat \cup {ChatThread(client_queue'[i], "greet") :
                                  i \in DOMAIN client_queue'}
               ELSE chat

\* react_to_chatroom lines 74-78: the greeting frames were acknowledged, or
\* (acked = FALSE) packet_send raised BrokenPipeError and the thread ends at
\* line 88.  The lock is not taken.
ChatGreeted(t, acked) ==
    /\ t \in chat
    /\ t.st = "greet"
    /\ chat' = (chat \ {t}) \cup (IF acked THEN {ChatThread(t.s, "relay")} ELSE {})
    /\ UNCHANGED <<client_queue, game_running, dced_player, rced_player, lock,
                   cname, pc, player1, game, rounds>>

\* the lock as held by the chat thread of session s (handlers hold it as their
\* own number)
ByChat(s) == 0 - s

\* react_to_chatroom lines 79-83 and broadcast_to_spectators line 52: with
\* game_running true, a line read from the session is to be broadcast: the
\* thread takes the lock ("cast")
ChatRelay(t) ==
    /\ t \in chat
    /\ t.st = "relay"
    /\ game_running
    /\ lock = None
    /\ lock' = ByChat(t.s)
    /\ chat' = (chat \ {t}) \cup {ChatThread(t.s, "cast")}
    /\ UNCHANGED <<client_queue, game_running, dced_player, rced_player, cname,
                   pc, player1, game, rounds>>

\* broadcast_to_spectators lines 53-61: the frame was sent to every session of
\* the queue and each ACK awaited (a BrokenPipeError is passed over); the lock
\* is released and the thread is back in its loop
ChatRelayDone(t) ==
    /\ t \in chat
    /\ t.st = "cast"
    /\ lock = ByChat(t.s)
    /\ lock' = None
    /\ chat' = (chat \ {t}) \cup
                  {[ChatThread(t.s, "relay") EXCEPT
                       !.out = Broadcast(client_queue, cname[t.s])]}
    /\ UNCHANGED <<client_queue, game_running, dced_player, rced_player, cname,
                   pc, player1, game, rounds>>

\* react_to_chatroom lines 79 and 85: game_running is found false and the
\* closing frame is sent
ChatLeaveLoop(t) ==
    /\ t \in chat
    /\ t.st = "relay"
    /\ ~game_running
    /\ chat' = (chat \ {t}) \cup {ChatThread(t.s, "closing")}
    /\ UNCHANGED <<client_queue, game_running, dced_player, rced_player, lock,
                   cname, pc, player1, game, rounds>>

\* react_to_chatroom lines 85-88: the closing frame was acknowledged or
\* packet_send raised; either way the thread ends
ChatClosed(t) ==
    /\ t \in chat
    /\ t.st = "closing"
    /\ chat' = chat \ {t}
    /\ UNCHANGED <<client_queue, game_running, dced_player, rced_player, lock,
                   cname, pc, player1, game, rounds>>

\* SpecChat: the lobby, one match and the chat threads of the spectators.
\* Clients connect one after the other; the first call of configure_game is
\* explored to its end.
NextChat ==
    \/ \E u \in NextNames : Quiet /\ Len(pc) < ChatConn /\ Connect(u) /\ UNCHANGED aux
    \/ \E h \in Handlers : AcquireLock(h) /\ UNCHANGED aux
    \/ \E h \in Handlers, a, b \in BOOLEAN : HandleChat(h, a, b) /\ UNCHANGED wire
    \/ \E h \in Handlers : TestRunning(h) /\ UNCHANGED aux
    \/ \E h \in Handlers : TestLen(h) /\ UNCHANGED aux
    \/ \E h \in Handlers : rounds = 0 /\ SetRunning(h) /\ UNCHANGED aux
    \/ \E h \in Handlers : Cfg1Check(h) /\ UNCHANGED aux
    \/ \E h \in Handlers, live \in BOOLEAN : Pop1(h, live) /\ UNCHANGED aux
    \/ \E h \in Handlers : Cfg2Check(h) /\ UNCHANGED aux
    \/ \E h \in Handlers, live \in BOOLEAN : Pop2Chat(h, live) /\ UNCHANGED wire
    \/ \E h \in Handlers : JoinReturn(h) /\ UNCHANGED aux
    \/ \E g \in Handlers, a \in BOOLEAN : GWelcome(g, a) /\ UNCHANGED aux
    \/ \E g \in Handlers, b0, b1 \in BOOLEAN, f \in {0, 1} :
          GPlacement(g, b0, b1, f) /\ UNCHANGED aux
    \/ \E g \in Handlers, a \in BOOLEAN : GCancel(g, a) /\ UNCHANGED aux
    \/ \E g \in Handlers, r \in ExitResults : GTurn(g, r) /\ UNCHANGED aux
    \/ \E g \in Handlers, a \in BOOLEAN : GPollClaim(g, a) /\ UNCHANGED aux
    \/ \E g \in Handlers : GPollFail(g) /\ UNCHANGED aux
    \/ \E g \in Handlers, conn \in SUBSET {1, 2}, w \in BOOLEAN, k \in 0..2 :
          GEnding(g, conn, w, k) /\ UNCHANGED aux
    \/ \E t \in chat, a \in BOOLEAN : ChatGreeted(t, a) /\ UNCHANGED wire
    \/ \E t \in chat : ChatRelay(t) /\ UNCHANGED wire
    \/ \E t \in chat : ChatRelayDone(t) /\ UNCHANGED wire
    \/ \E t \in chat : ChatLeaveLoop(t) /\ UNCHANGED wire
    \/ \E t \in chat : ChatClosed(t) /\ UNCHANGED wire

SpecChat == Init /\ [][NextChat]_vars

\* ------------------------------------------------------------ packet_send

\* lines a client writes: the replies ACK and NACK and a payload line (a chat
\* message or a command); "" is what readline returns at end of stream and
\* "silence" stands for a select that timed out
ClientLines == {"ACK", "NACK", "chat hi"}

\* any reply of the client ends the call
IsAnyReply(m) == m \in {"ACK", "NACK"}

\* packet_send line 46 (battleship.py line 136): the reply that ends the call
IsAck(m) == m = "ACK"

\* client.py lines 65-66 and 72-99: the lines the client writes in answer to a
\* frame or a probe
IsReplyLine(m) == m \in {"ACK", "NACK"}

\* the answers to frames already written that the server has not read: those
\* the client has yet to write (one per unanswered frame, in order) and those
\* waiting in the stream
Unread(p) ==
    p.frames + Cardinality({i \in DOMAIN p.inbox : IsReplyLine(p.inbox[i])})

\* packet_send lines 37-43: `retry = 3`, the frame is written and the call
\* waits in select
SendBegin ==
    /\ ps.st = "idle"
    /\ ps.calls < MaxCalls
    /\ ps' = [ps EXCEPT !.st = "await", !.retry = RETRIES, !.replies = <<>>,
                        !.frames = @ + 1, !.calls = @ + 1,
                        !.owed = Unread(ps), !.stale = FALSE]
    /\ UNCHANGED <<engine, lobby, chat, spawn, cl, net>>

\* packet_send lines 44-49 after an attempt read m (or timed out): ACK returns;
\* anything else decrements retry, and the frame is written again unless retry
\* reached 0, when BrokenPipeError is raised
AfterAttempt(m, rest) ==
    LET old == IsReplyLine(m) /\ ps.owed > 0
        read == [ps EXCEPT !.stale = old,
                           !.owed = IF old THEN @ - 1 ELSE @]
    IN
    IF IsAck(m)
    THEN [read EXCEPT !.st = "ok", !.replies = Append(@, m), !.inbox = rest]
    ELSE IF ps.retry - 1 > 0
         THEN [read EXCEPT !.retry = @ - 1, !.replies = Append(@, m),
                           !.inbox = rest, !.frames = @ + 1]
         ELSE [read EXCEPT !.st = "raised", !.retry = @ - 1,
                           !.replies = Append(@, m), !.inbox = rest]

\* packet_send lines 43-46: select reports the reader ready and readline
\* returns the next unread line of the client, or "" at end of stream
SendReply ==
    /\ ps.st = "await"
    /\ \/ /\ ps.inbox # <<>>
          /\ ps' = AfterAttempt(Head(ps.inbox), Tail(ps.inbox))
       \/ /\ ps.inbox = <<>>
          /\ ps.closed
          /\ ps' = AfterAttempt("", <<>>)
    /\ UNCHANGED <<engine, lobby, chat, spawn, cl, net>>

\* packet_send lines 43-44 and 48: select times out after 30 s with nothing to
\* read
SendSilence ==
    /\ ps.st = "await"
    /\ ps.inbox = <<>>
    /\ ~ps.closed
    /\ ps' = AfterAttempt("silence", <<>>)
    /\ UNCHANGED <<engine, lobby, chat, spawn, cl, net>>

\* packet_send returned or raised: the caller goes on
SendReturn ==
    /\ ps.st \in {"ok", "raised"}
    /\ ps' = [ps EXCEPT !.st = "idle"]
    /\ UNCHANGED <<engine, lobby, chat, spawn, cl, net>>

\* a reader loop between two sends (react_to_chatroom line 81, the recv() of
\* battleship.py line 423): readline returns the next unread line
Recv ==
    /\ ps.st = "idle"
    /\ ps.inbox # <<>>
    /\ ps' = [ps EXCEPT !.delivered = Head(ps.inbox), !.inbox = Tail(ps.inbox)]
    /\ UNCHANGED <<engine, lobby, chat, spawn, cl, net>>

\* client.py lines 72-74 and 97-99: the client answers one received frame with
\* ACK (checksum matches) or NACK
ClientAnswer(m) ==
    /\ ps.frames > 0
    /\ ~ps.closed
    /\ Len(ps.inbox) < MaxInbox
    /\ ps' = [ps EXCEPT !.frames = @ - 1, !.inbox = Append(@, m)]
    /\ UNCHANGED <<engine, lobby, chat, spawn, cl, net>>

\* client.py lines 143-159: the user's line (a chat message or a command) is
\* written to the server
ClientSay ==
    /\ ~ps.closed
    /\ Len(ps.inbox) < MaxInbox
    /\ ps' = [ps EXCEPT !.inbox = Append(@, "chat hi")]
    /\ UNCHANGED <<engine, lobby, chat, spawn, cl, net>>

\* the client closes the connection
ClientClose ==
    /\ ~ps.closed
    /\ ps' = [ps EXCEPT !.closed = TRUE]
    /\ UNCHANGED <<engine, lobby, chat, spawn, cl, net>>

\* SpecSend: one connection, the server sending frames with packet_send and
\* reading lines between the sends, the client answering frames and writing
\* lines of its own.
NextSend ==
    \/ SendBegin
    \/ SendReply
    \/ SendSilence
    \/ SendReturn
    \/ Recv
    \/ \E m \in {"ACK", "NACK"} : ClientAnswer(m)
    \/ ClientSay
    \/ ClientClose

SpecSend == Init /\ [][NextSend]_vars

\* ------------------------------------------------------------ the client

\* Strings are sequences of characters; the newline that ends a line is the
\* delimiter of the stream and not part of the sequences.
HexDigits == <<"0", "1", "2", "3", "4", "5", "6", "7", "8", "9",
               "a", "b", "c", "d", "e", "f">>

IsHex(c) == \E i \in 1..16 : HexDigits[i] = c

HexVal(c) == (CHOOSE i \in 1..16 : HexDigits[i] = c) - 1

\* the byte a character encodes to (str.encode)
Ord(c) ==
    CASE c = " " -> 32
      [] c = ";" -> 59
      [] c = "z" -> 122
      [] c \in {"a", "b", "c", "d", "e", "f"} -> 87 + HexVal(c)
      [] OTHER -> 48 + HexVal(c)

\* zlib.crc32 is library code: a 32-bit function of the bytes, here a
\* polynomial sum of the bytes modulo 2^32, kept as its two 16-bit halves
\* <<high, low>> (server and client call the same function)
RECURSIVE crc32(_)
crc32(s) ==
    IF s = <<>> THEN <<0, 0>>
    ELSE LET h == crc32(SubSeq(s, 1, Len(s) - 1))
             low == h[2] * 4099 + Ord(s[Len(s)]) + 1
         IN  <<(h[1] * 4099 + (low \div 65536)) % 65536, low % 65536>>

\* f"{n:04x}" of a 16-bit half
Hex4(n) == [i \in 1..4 |-> HexDigits[((n \div (16 ^ (4 - i))) % 16) + 1]]

\* f"{checksum:08x}"
Hex8(h) == Hex4(h[1]) \o Hex4(h[2])

\* int(s, 16) of at most 4 digits
RECURSIVE HexInt(_)
HexInt(s) ==
    IF s = <<>> THEN 0 ELSE HexInt(SubSeq(s, 1, Len(s) - 1)) * 16 + HexVal(s[Len(s)])

\* int(s, 16) of at most 8 characters, as the two halves; <<-1, -1>> stands
\* for ValueError (no digit at all, or a character that is no digit)
ParseHex(s) ==
    IF s = <<>> \/ \E i \in DOMAIN s : ~IsHex(s[i]) THEN <<0 - 1, 0 - 1>>
    ELSE IF Len(s) <= 4 THEN <<0, HexInt(s)>>
    ELSE <<HexInt(SubSeq(s, 1, Len(s) - 4)), HexInt(SubSeq(s, Len(s) - 3, Len(s)))>>

\* str.strip()
RECURSIVE Strip(_)
Strip(s) ==
    IF s = <<>> THEN s
    ELSE IF s[1] = " " THEN Strip(Tail(s))
    ELSE IF s[Len(s)] = " " THEN Strip(SubSeq(s, 1, Len(s) - 1))
    ELSE s

\* the Python slice s[a:b]
Slice(s, a, b) == SubSeq(s, a + 1, IF b < Len(s) THEN b ELSE Len(s))

\* packet_send lines 36-41: the line written for msg
Frame(msg) == Hex8(crc32(Strip(msg))) \o <<";">> \o Strip(msg)

\* the messages of the server are f"{tag};{body}"
Tags == {"0", "1", "2", "4", "5", "6"}
BodyChars == {"a", " "}
Bodies == UNION {[1..n -> BodyChars] : n \in 0..MaxBody}
Msg(tag, body) == <<tag, ";">> \o body

\* the lines the client treats apart (client.py lines 55, 60, 63)
LineX == <<"X">>
LineGRID == <<"G", "R", "I", "D">>
LineACK == <<"A", "C", "K">>

\* packet_send called with (tag, body): the frame is on its way
ServerFrame(tag, body) ==
    /\ net.line = <<>>
    /\ net' = [NoFrame EXCEPT !.line = Frame(Msg(tag, body)),
                              !.sent = <<tag, body>>]
    /\ UNCHANGED <<engine, lobby, chat, spawn, ps, cl>>

\* the server writes one of the lines without checksum: the probe ACK
\* (server.py lines 139-141), GRID (battleship.py print_display_grid_mp) or X
ServerControl(l) ==
    /\ net.line = <<>>
    /\ net' = [NoFrame EXCEPT !.line = l]
    /\ UNCHANGED <<engine, lobby, chat, spawn, ps, cl>>

\* one character of the line in flight is changed
TamperChars == {"z", "0"}

Tamper(i, c) ==
    /\ net.line # <<>>
    /\ net.sent # <<>>
    /\ ~net.tampered
    /\ i \in DOMAIN net.line
    /\ net.line[i] # c
    /\ net' = [net EXCEPT !.line[i] = c, !.tampered = TRUE]
    /\ UNCHANGED <<engine, lobby, chat, spawn, ps, cl>>

\* receive_messages lines 76-88: what a verified frame with tag t does to the
\* flags
AfterTag(t) ==
    CASE t = "1" -> [cl EXCEPT !.can_input = TRUE]
      [] t = "2" -> [cl EXCEPT !.can_input = FALSE]
      [] t = "4" -> [cl EXCEPT !.stop_spam = TRUE]
      [] t = "5" -> [cl EXCEPT !.can_input = FALSE, !.playing = TRUE]
      [] t = "6" -> [cl EXCEPT !.can_input = FALSE, !.playing = FALSE]
      [] OTHER -> cl

\* receive_messages lines 46-102, one turn of the loop: the line in flight is
\* read and stripped; X, GRID and ACK are handled apart; of any other line the
\* first 8 characters are parsed as hexadecimal (a ValueError is not caught and
\* ends the thread) and compared with the checksum of line[9:]
ClientRecv ==
    /\ cl.rx = "recv"
    /\ cl.running
    /\ net.line # <<>>
    /\ LET line == Strip(net.line)
           payload == Slice(line, 9, Len(line))
           checksum_rcv == ParseHex(Slice(line, 0, 8))
       IN  CASE line = LineX ->
                  /\ cl' = [cl EXCEPT !.can_input = FALSE, !.running = FALSE]
                  /\ net' = [net EXCEPT !.line = <<>>]
             [] line = LineGRID ->
                  /\ cl' = cl
                  /\ net' = [net EXCEPT !.line = <<>>]
             [] line = LineACK ->
                  /\ cl' = cl
                  /\ net' = [net EXCEPT !.line = <<>>, !.reply = "ACK"]
             [] OTHER ->
                  IF checksum_rcv[1] < 0
                  THEN /\ cl' = [cl EXCEPT !.rx = "dead"]
                       /\ net' = [net EXCEPT !.line = <<>>]
                  ELSE IF checksum_rcv = crc32(payload)
                  THEN IF Len(line) >= 10
                       THEN /\ cl' = AfterTag(line[10])
                            /\ net' = [net EXCEPT !.line = <<>>, !.reply = "ACK",
                                         !.shown = <<line[10], Slice(line, 11, Len(line))>>]
                       ELSE /\ cl' = cl
                            /\ net' = [net EXCEPT !.line = <<>>, !.reply = "ACK"]
                  ELSE /\ cl' = cl
                       /\ net' = [net EXCEPT !.line = <<>>, !.reply = "NACK"]
    /\ UNCHANGED <<engine, lobby, chat, spawn, ps>>

\* receive_messages lines 48-50: readline returns '' at end of stream
ClientEof ==
    /\ cl.rx = "recv"
    /\ cl.running
    /\ net.line = <<>>
    /\ cl' = [cl EXCEPT !.rx = "ended"]
    /\ UNCHANGED <<engine, lobby, chat, spawn, ps, net>>

\* the receiver thread finds running False at the top of its loop (line 46)
ClientRecvStops ==
    /\ cl.rx = "recv"
    /\ ~cl.running
    /\ cl' = [cl EXCEPT !.rx = "ended"]
    /\ UNCHANGED <<engine, lobby, chat, spawn, ps, net>>

\* allow_chat, run by the Timer of line 85 after 2 s
AllowChat ==
    /\ cl.stop_spam
    /\ cl' = [cl EXCEPT !.stop_spam = FALSE]
    /\ UNCHANGED <<engine, lobby, chat, spawn, ps, net>>

\* what the user types: quit, a chat line or a game command, of some length
Commands ==
    {[kind |-> "quit", len |-> 4]}
        \cup [kind : {"chat"}, len : {7, MAX_INPUT, MAX_INPUT + 1}]
        \cup [kind : {"game"}, len : {2, MAX_INPUT + 1}]

\* run lines 122-155, what the turn of the loop writes for command c: nothing
\* for a line over 100 characters and nothing while stop_spam is set; then, in
\* player role, quit and chat lines are written and a game command only if
\* can_input; in spectator role every line is written
Written(c) ==
    IF c.len > MAX_INPUT \/ cl.stop_spam THEN "none"
    ELSE IF cl.playing /\ c.kind = "game" /\ ~cl.can_input THEN "none"
    ELSE c.kind

\* run lines 119-155, one turn of the loop for the command input() returned
ClientInput(c) ==
    /\ cl.main = "input"
    /\ LET w == Written(c)
           quits == w = "quit" /\ cl.playing
           running == IF quits THEN FALSE ELSE cl.running
       IN  cl' = [cl EXCEPT !.typed = c.kind, !.wrote = w,
                            !.running = running,
                            !.can_input = IF cl.playing /\ w = "game" THEN FALSE ELSE @,
                            !.main = IF running THEN "input" ELSE "done"]
    /\ UNCHANGED <<engine, lobby, chat, spawn, ps, net>>

\* run lines 158-161: KeyboardInterrupt during input() writes quit
ClientInterrupt ==
    /\ cl.main = "input"
    /\ cl' = [cl EXCEPT !.typed = "interrupt", !.wrote = "quit",
                        !.running = FALSE, !.main = "done"]
    /\ UNCHANGED <<engine, lobby, chat, spawn, ps, net>>

\* SpecClient: one client, its receiver thread taking the lines the server
\* sends (frames of packet_send, possibly changed on the way, and control
\* lines) and its main thread taking the user's commands.
NextClient ==
    \/ \E tag \in Tags, body \in Bodies : ServerFrame(tag, body)
    \/ \E l \in {LineX, LineGRID, LineACK} : ServerControl(l)
    \/ \E i \in 1..(11 + MaxBody), c \in TamperChars : Tamper(i, c)
    \/ ClientRecv
    \/ ClientEof
    \/ ClientRecvStops
    \/ AllowChat
    \/ \E c \in Commands : ClientInput(c)
    \/ ClientInterrupt

SpecClient == Init /\ [][NextClient]_vars

\* ---------------------------------------------------------------- the board

\* a Python list of BOARD_SIZE entries accepts the index i
InList(i) == 0 - BOARD_SIZE <= i /\ i < BOARD_SIZE

\* the entry a list index stands for: a negative index counts from the end
Idx(i) == IF i < 0 THEN i + BOARD_SIZE ELSE i

\* the grid cell hidden_grid[r][c] is
CellAt(x) == <<Idx(x[1]), Idx(x[2])>>

\* the (row, col) pairs of range(col, col + ship_size) / range(row, ...)
Span(row, col, ship_size, orientation) ==
    IF orientation = 0
    THEN {<<row, c>> : c \in col..(col + ship_size - 1)}
    ELSE {<<r, col>> : r \in row..(row + ship_size - 1)}

\* Board.can_place_ship (lines 242-260): "False" when the ship would pass the
\* last column (row), "IndexError" when the first cell read is outside the
\* lists, "False" when a cell read is not '.', else "True"
can_place_ship(b, row, col, ship_size, orientation) ==
    IF (IF orientation = 0 THEN col ELSE row) + ship_size > BOARD_SIZE THEN "False"
    ELSE IF ~InList(row) \/ ~InList(col) THEN "IndexError"
    ELSE IF \E x \in Span(row, col, ship_size, orientation) :
                b.hidden_grid[CellAt(x)] # "."
         THEN "False"
         ELSE "True"

\* Board.do_place_ship (lines 262-275) followed by the append of lines
\* 200-203: the cells are marked 'S' and the ship holds the (row, col) pairs
\* as they were computed.  History: cells, the grid cells marked for the ship.
do_place_ship(b, name, row, col, ship_size, orientation) ==
    LET occupied == Span(row, col, ship_size, orientation) IN
    [b EXCEPT !.hidden_grid = [x \in Cells |->
                                 IF \E y \in occupied : CellAt(y) = x
                                 THEN "S" ELSE b.hidden_grid[x]],
              !.placed_ships = Append(@, [name |-> name, positions |-> occupied,
                                          cells |-> {CellAt(y) : y \in occupied}])]

\* the index of the first ship that holds x, 0 if none
Holder(b, x) ==
    LET hs == {i \in DOMAIN b.placed_ships : x \in b.placed_ships[i].positions}
    IN  IF hs = {} THEN 0 ELSE CHOOSE i \in hs : \A j \in hs : i <= j

\* a miss that is not recorded
MissNotMarked(b, x) == b

\* Board.fire_at lines 300-303: a miss is marked on both grids
MarkMiss(b, x) == [b EXCEPT !.hidden_grid[x] = "o", !.display_grid[x] = "o"]

\* Board.fire_at (lines 277-308) with _mark_hit_and_check_sunk (lines
\* 310-322) called with (row, col) = x: the board afterwards
BoardAfterFire(b, x) ==
    LET i == Holder(b, x)
        y == CellAt(x)
    IN  IF b.hidden_grid[y] = "S"
        THEN [b EXCEPT !.hidden_grid[y] = "X", !.display_grid[y] = "X",
                       !.placed_ships = IF i = 0 THEN @
                                        ELSE [@ EXCEPT ![i].positions = @ \ {x}]]
        ELSE IF b.hidden_grid[y] = "." THEN MarkMiss(b, y)
        ELSE b

\* what that call returns: (result, sunk_ship_name), "" for None
fire_at(b, x) ==
    LET i == Holder(b, x)
        y == CellAt(x)
    IN  IF b.hidden_grid[y] = "S"
        THEN [cell |-> x, result |-> "hit",
              sunk |-> IF i # 0 /\ b.placed_ships[i].positions = {x}
                       THEN b.placed_ships[i].name ELSE ""]
        ELSE IF b.hidden_grid[y] = "."
             THEN [cell |-> x, result |-> "miss", sunk |-> ""]
             ELSE [cell |-> x, result |-> "already_shot", sunk |-> ""]

\* Board.all_ships_sunk (lines 324-331)
all_ships_sunk(b) ==
    \A i \in DOMAIN b.placed_ships : b.placed_ships[i].positions = {}

\* str.upper() on the characters of the model
Upper(c) ==
    CASE c = "a" -> "A" [] c = "h" -> "H" [] c = "v" -> "V" [] OTHER -> c

\* ord() of the row letters: '@' is 64, 'A' is 65, ...
Letters == <<"@", "A", "B", "C", "D", "E", "F", "G", "H", "I", "J", "K", "L">>
LetterOrd(c) == 63 + (CHOOSE i \in DOMAIN Letters : Letters[i] = c)

\* int() of a string of decimal digits; -1 stands for ValueError (no
\* character, or a character that is no digit)
DecDigits == <<"0", "1", "2", "3", "4", "5", "6", "7", "8", "9">>
IsDec(c) == \E i \in 1..10 : DecDigits[i] = c
RECURSIVE DecInt(_)
DecInt(s) ==
    IF s = <<>> THEN 0
    ELSE DecInt(SubSeq(s, 1, Len(s) - 1)) * 10
           + (CHOOSE i \in 1..10 : DecDigits[i] = s[Len(s)]) - 1
IntOf(s) == IF s = <<>> \/ \E i \in DOMAIN s : ~IsDec(s[i]) THEN 0 - 1 ELSE DecInt(s)

\* parse_coordinate (lines 373-386) on a string that starts with a letter:
\* (row, col), or <<>> for ValueError
parse_coordinate(coord_str) ==
    IF IntOf(Tail(coord_str)) < 0 THEN <<>>
    ELSE <<LetterOrd(Upper(coord_str[1])) - 65, IntOf(Tail(coord_str)) - 1>>

\* the coordinates a player types: a row letter from '@' to the one after the
\* last row, or 'a', and a column from 0 to one past the last, or 'x'
RowChars == {Letters[i] : i \in 1..(BOARD_SIZE + 2)} \cup {"a"}
ColStrings == {<<DecDigits[i]>> : i \in 1..(BOARD_SIZE + 2)} \cup {<<"x">>}
CoordStrings == {<<l>> \o d : l \in RowChars, d \in ColStrings}

\* the lines a player types during placement, as command.split(" ") returns
\* them: a coordinate and an orientation, or one word, or three
PlaceCommands ==
    {<<c, o>> : c \in CoordStrings, o \in {"H", "v", "x"}}
        \cup {<<<<"A", "1">>>>, <<<<"A", "1">>, "H", "H">>}

\* place_ships_manually_mp lines 159-206, one turn of the loop for one line
\* of the player, with place_ships lines 205-212 for what it raises
PlaceInput(cmd) ==
    LET k == Len(bd.placed_ships) + 1
        rc == parse_coordinate(cmd[1])
        orientation_str == Upper(cmd[2])
        orientation == IF orientation_str = "H" THEN 0 ELSE 1
        can == can_place_ship(bd, rc[1], rc[2], SHIPS[k].size, orientation)
    IN
    /\ bd.worker = "placing"
    /\ bd' = IF Len(cmd) # 2
             THEN [bd EXCEPT !.answer = "format", !.prompted = TRUE]
             ELSE IF rc = <<>>
             THEN [bd EXCEPT !.answer = "coordinate", !.prompted = TRUE]
             ELSE IF orientation_str \notin {"H", "V"}
             THEN [bd EXCEPT !.answer = "orientation", !.prompted = TRUE]
             ELSE IF can = "IndexError"
             THEN [bd EXCEPT !.worker = "raised", !.answer = "none",
                             !.prompted = FALSE]
             ELSE IF can = "False"
             THEN [bd EXCEPT !.answer = "cannot", !.prompted = FALSE]
             ELSE IF k = Len(SHIPS)
             THEN [do_place_ship(bd, SHIPS[k].name, rc[1], rc[2], SHIPS[k].size,
                                 orientation)
                     EXCEPT !.worker = "finished", !.answer = "finished",
                            !.prompted = FALSE]
             ELSE [do_place_ship(bd, SHIPS[k].name, rc[1], rc[2], SHIPS[k].size,
                                 orientation)
                     EXCEPT !.answer = "placed", !.prompted = TRUE]
    /\ UNCHANGED <<lobby, chat, spawn, ps, cl, net, turn>>

\* place_ships_manually_mp lines 161-165: the 180 s timer has fired
PlaceTimeout ==
    /\ bd.worker = "placing"
    /\ bd' = [bd EXCEPT !.worker = "timeout", !.answer = "X", !.prompted = FALSE]
    /\ UNCHANGED <<lobby, chat, spawn, ps, cl, net, turn>>

\* ----------------------------------------------------------------- the turn

\* the lines recv() and recv_other() return
ActiveLines == {NoLine, QuitLine, ChatLine} \cup {TextLine(t) : t \in CoordStrings}
WaitingLines == {NoLine, QuitLine, ChatLine}

\* every (row, col) that the lists accept as indices is let through
validate_as_index(coord_str) ==
    LET rc == parse_coordinate(coord_str) IN
    IF rc # <<>> /\ InList(rc[1]) /\ InList(rc[2]) THEN rc ELSE <<>>

\* validate_coordinate (lines 446-453): the (row, col) of a coordinate inside
\* the board, else <<>> for None
validate_coordinate(coord_str) ==
    LET rc == parse_coordinate(coord_str) IN
    IF rc # <<>> /\ 0 <= rc[1] /\ rc[1] < BOARD_SIZE /\ 0 <= rc[2] /\ rc[2] < BOARD_SIZE
    THEN rc ELSE <<>>

\* the results after which run_game leaves its loop for good
FinalResults == {"game_finished", "all_forfeit"}

\* run_multi_player_game_online lines 479-488: the frames that open the turn,
\* the 30 s timer started.  run_game calls it again after turn_completed and
\* timeout (the turns of the opponent, played on the other board, are not
\* shown) and after a reconnect that succeeded.
TurnBegin ==
    /\ bd.worker = "finished"
    /\ turn.st \in {"idle", "done"}
    /\ turn.result \notin FinalResults
    /\ turn' = [NoTurn EXCEPT !.st = "poll", !.reply = "prompt"]
    /\ UNCHANGED <<lobby, chat, spawn, ps, cl, net, bd>>

\* skip(), run by the Timer of line 486
Skip ==
    /\ turn.st = "poll"
    /\ ~turn.timed_out
    /\ turn' = [turn EXCEPT !.timed_out = TRUE]
    /\ UNCHANGED <<lobby, chat, spawn, ps, cl, net, bd>>

\* the active player's line is looked at before the waiting player's
BranchActiveFirst(timed_out, command, other_command) ==
    IF timed_out THEN "timeout"
    ELSE IF other_command.kind = "quit" /\ command.kind = "quit" THEN "all_forfeit"
    ELSE IF command.kind = "quit" THEN "player_dc"
    ELSE IF command.kind = "text" THEN "coordinate"
    ELSE IF other_command.kind = "quit" THEN "other_player_dc"
    ELSE IF command.kind = "none" THEN "continue"
    ELSE "chat"

\* lines 497-531: the branch a poll takes, in the order of the tests
Branch(timed_out, command, other_command) ==
    IF timed_out THEN "timeout"
    ELSE IF other_command.kind = "quit" /\ command.kind = "quit" THEN "all_forfeit"
    ELSE IF other_command.kind = "quit" THEN "other_player_dc"
    ELSE IF command.kind = "none" THEN "continue"
    ELSE IF command.kind = "quit" THEN "player_dc"
    ELSE IF command.kind = "chat" THEN "chat"
    ELSE "coordinate"

\* lines 491-568, one poll: command is what recv() returned, other_command
\* what recv_other() returned
Poll(command, other_command) ==
    LET coord == validate_coordinate(command.text)
        shot == fire_at(bd, coord)
        after == [BoardAfterFire(bd, coord) EXCEPT
                    !.shot = IF shot.result = "already_shot" THEN @
                             ELSE @ \cup {coord}]
        read == [turn EXCEPT !.command = command, !.other_command = other_command,
                             !.fire = NoFire]
        return(r) == [read EXCEPT !.st = "done", !.result = r]
        branch == Branch(turn.timed_out, command, other_command)
    IN
    /\ turn.st = "poll"
    /\ CASE branch = "timeout" ->
              turn' = [return("timeout") EXCEPT !.reply = "timeout"] /\ bd' = bd
         [] branch = "all_forfeit" ->
              turn' = return("all_forfeit") /\ bd' = bd
         [] branch = "other_player_dc" ->
              turn' = [return("other_player_dc") EXCEPT !.reply = "wait"] /\ bd' = bd
         [] branch = "continue" ->
              turn' = read /\ bd' = bd
         [] branch = "player_dc" ->
              turn' = return("player_dc") /\ bd' = bd
         [] branch = "chat" ->
              turn' = [read EXCEPT !.reply = "chat"] /\ bd' = bd
         [] OTHER ->
              IF coord = <<>>
              THEN turn' = [read EXCEPT !.reply = "invalid"] /\ bd' = bd
              ELSE IF shot.result = "already_shot"
              THEN turn' = [read EXCEPT !.reply = "already", !.fire = shot] /\ bd' = after
              ELSE /\ bd' = after
                   /\ turn' = [read EXCEPT
                                 !.st = "done", !.fire = shot, !.reply = shot.result,
                                 !.result = IF shot.result = "hit" /\ shot.sunk # ""
                                               /\ all_ships_sunk(after)
                                            THEN "game_finished"
                                            ELSE "turn_completed"]
    /\ UNCHANGED <<lobby, chat, spawn, ps, cl, net>>

\* SpecBoard: one board, filled by the placement dialogue of its owner and then
\* fired at in the turns of the opponent.
NextBoard ==
    \/ \E cmd \in PlaceCommands : PlaceInput(cmd)
    \/ PlaceTimeout
    \/ TurnBegin
    \/ Skip
    \/ \E c \in ActiveLines, o \in WaitingLines : Poll(c, o)

SpecBoard == Init /\ [][NextBoard]_vars

\* ------------------------------------------------------------------ claims

\* the run_game threads that are alive
Drivers == {g \in Handlers : Alive(g)}

\* a handler is between line 118 and its return from configure_game
InConfigure(h) == pc[h] \in {"cfg1", "pop1", "cfg2", "pop2", "join"}

\* C1: at most one run_game driver is alive, and no driver is alive while
\* game_running is false.
C1_OneMatchAtATime ==
    /\ Cardinality(Drivers) <= 1
    /\ (Drivers # {} => game_running)

\* the holders of session s: the lobby queue, the players of a match, the slot
Holders(s) ==
    (IF InQueue(s) THEN {<<"lobby", 0>>} ELSE {})
    \cup {<<"match", g>> : g \in {g \in Handlers : s \in MatchSessions(g)}}
    \cup (IF rced_player = s THEN {<<"slot", 0>>} ELSE {})

Routed(h) == pc[h] = "locked" /\ pc'[h] # "locked"

\* the clients the server holds: those waiting in the lobby queue and those
\* playing a match
Held == Len(client_queue) + Cardinality(UNION {MatchSessions(g) : g \in Handlers})

\* C4 as stated: with 10 clients held, counting the lobby and the players of
\* the active match, a further client is refused and not enqueued.
C4_RefusedWhenTenHeld ==
    [][\A h \in Handlers :
          (Routed(h) /\ Held >= MAX_QUEUE_SIZE)
              => (pc'[h] = "refused" /\ client_queue' = client_queue)]_vars

\* C4 amended: with 10 (or more) sessions in the lobby queue, a further client
\* is refused with the queue-full notice and not enqueued.
C4_RefusedWhenQueueFull ==
    [][\A h \in Handlers :
          (Routed(h) /\ Len(client_queue) >= MAX_QUEUE_SIZE)
              => (pc'[h] = "refused" /\ client_queue' = client_queue
                    /\ rced_player' = rced_player)]_vars

\* C4 witness: a client was refused by a lobby queue of 10.
C4_Witness ==
    /\ Len(client_queue) = MAX_QUEUE_SIZE
    /\ \E h \in Handlers : pc[h] = "refused"

\* C5: the lobby queue never holds more than 10 sessions.
C5_QueueBounded == Len(client_queue) <= MAX_QUEUE_SIZE

\* C6: a client whose username equals disconnected_player is stored in the
\* reconnected_player slot and not enqueued, whatever the lobby occupancy.
C6_ReturningGoesToSlot ==
    [][\A h \in Handlers :
          (Handle(h, TRUE, TRUE) /\ cname[h] = dced_player)
              => (rced_player' = h /\ client_queue' = client_queue)]_vars

\* the reconnect wait of match g succeeds in this step
WaitSucceeds(g) ==
    /\ game[g].gpc = "reconnect"
    /\ game'[g].gpc # "reconnect"
    /\ rced_player # None

\* C7: after a successful reconnect wait the disconnected player's entry of
\* players holds the new session, the "Welcome back" frame is written to that
\* new session, and the active index is unchanged.
C7_WelcomeOnNewSession ==
    [][\A g \in Handlers :
          WaitSucceeds(g)
              => /\ game'[g].players[game[g].dcIdx + 1] = rced_player
                 /\ game'[g].welcomed = rced_player
                 /\ game'[g].current_player = game[g].current_player]_vars

\* C8: the reconnect wait succeeds only on a slot session whose username equals
\* disconnected_player; it installs that session and empties both slots.
C8_SuccessOnlyOnMatchingName ==
    [][\A g \in Handlers :
          WaitSucceeds(g)
              => /\ cname[rced_player] = dced_player
                 /\ rced_player \in {game'[g].players[i] : i \in DOMAIN game'[g].players}
                 /\ rced_player' = None
                 /\ dced_player' = None]_vars

\* C9: a session is held in the reconnected_player slot only while a match is
\* waiting for a reconnect: after a failed wait none is left unclaimed, and a
\* client with the former name is enqueued like any other.
C9_NoUnclaimedSlot ==
    rced_player # None => \E g \in Handlers : game[g].gpc = "reconnect"

\* C10: a timed-out turn passes play to the opponent; the match ends by AFK
\* forfeit of the player whose turn it was exactly when that turn times out
\* and that player's latest finished turn also timed out; nobody else forfeits.
C10_ForfeitOnSecondTimeout ==
    [][\A g \in Handlers :
          LET cur == game[g].current_player IN
          /\ GTurn(g, "timeout")
                => /\ game'[g].current_player = 1 - cur
                   /\ (game'[g].forfeit = cur <=> game[g].lastTimedOut[cur + 1])
                   /\ game'[g].forfeit \in {-1, cur}
                   /\ (game'[g].forfeit = -1 => game'[g].gpc = "turn")
          /\ (game[g].gpc = "turn" /\ ~GTurn(g, "timeout"))
                => game'[g].forfeit = -1]_vars

\* C10 witness: a match ended by the AFK forfeit of a player.
C10_Witness ==
    \E g \in Handlers : game[g].forfeit # -1 /\ game[g].gpc = "ending"

\* the players of match g whose placement succeeded (run_game lines 246-249)
Survivors(g) == {game[g].players[i] : i \in {i \in DOMAIN game[g].boards : game[g].boards[i]}}

\* match g is cancelled in this step with exactly one placement succeeded
CancelledWithSurvivor(g) ==
    /\ game[g].gpc = "cancel"
    /\ game'[g].gpc = "done"
    /\ Cardinality(Survivors(g)) = 1

\* C11: when one placement fails and the other succeeds, the match is cancelled
\* and the surviving player is put back into the lobby queue, whether the lobby
\* is empty or holds spectators.
C11_SurvivorRequeued ==
    [][\A g \in Handlers :
          CancelledWithSurvivor(g)
              => \A s \in Survivors(g) :
                    \E i \in DOMAIN client_queue' : client_queue'[i] = s]_vars

\* match g requeues in this step the one player left after the opponent failed
\* to reconnect (run_game lines 315/325, then 397-401)
RequeuesLastPlayer(g) ==
    /\ game[g].gpc = "ending"
    /\ Len(game[g].players) = 1
    /\ Len(client_queue') = Len(client_queue) + 1

\* C12: a survivor requeued after the opponent's disconnect is at the front of
\* the lobby queue, after a cancelled placement and after a failed reconnect.
C12_SurvivorAtFront ==
    [][\A g \in Handlers :
          /\ (CancelledWithSurvivor(g) /\ client_queue' # client_queue)
                => Head(client_queue') \in Survivors(g)
          /\ RequeuesLastPlayer(g)
                => Head(client_queue') = game[g].players[1]]_vars

\* C13: a connection lost during the turn loop (a quit line, or a send whose
\* ACK retries are exhausted) first records the player in disconnected_player
\* and starts the reconnect wait; the match goes to its end only after it.
C13_ReconnectBeforeDrop ==
    [][\A g \in Handlers :
          (GTurn(g, "player_dc") \/ GTurn(g, "other_player_dc") \/ GTurn(g, "broken"))
              => (game'[g].gpc = "reconnect" /\ dced_player' # None)]_vars

\* C14: the lock is never held across network I/O, so a client that does not
\* answer its handler cannot stop a running match from taking its next turn.
C14_MatchNeverBlocked ==
    \A g \in Handlers :
        game[g].gpc = "turn" => ENABLED GTurn(g, "turn_completed")

\* the sessions chat thread t is sending a frame to while awaiting their ACK
SendsTo(t) ==
    IF t.st \in {"greet", "closing"} THEN {t.s}
    ELSE IF t.st = "cast" THEN {client_queue[i] : i \in DOMAIN client_queue}
    ELSE {}

\* driver g broadcasts to the spectators in this step (run_game lines 216, 275
\* and 378 open the welcome, every turn and the ending)
DriverBroadcasts(g) ==
    /\ game[g].gpc \in {"welcome", "turn", "ending"}
    /\ game'[g] # game[g]

\* C15: at most one server task at a time sends to a session and awaits its
\* ACK: no two chat threads do, and the match driver does not broadcast to a
\* session while a chat thread is sending to it.
C15_OneSenderPerSession ==
    [][/\ \A t1, t2 \in chat : t1 # t2 => SendsTo(t1) \cap SendsTo(t2) = {}
       /\ \A g \in Handlers :
             DriverBroadcasts(g)
                 => \A t \in chat :
                       SendsTo(t) \cap {client_queue[i] : i \in DOMAIN client_queue} = {}]_vars

\* C16: an ACK or NACK of the client is never delivered to a reader loop as a
\* message or command, and a chat or command line is never consumed as the
\* reply to a pending packet_send.
C16_RepliesAndPayloadApart ==
    /\ ps.delivered \notin {"ACK", "NACK"}
    /\ \A i \in DOMAIN ps.replies : ps.replies[i] # "chat hi"

\* the frames the current call of packet_send has written
Writes == Len(ps.replies) + (IF ps.st = "await" THEN 1 ELSE 0)

\* C17: packet_send writes the frame at most 3 times; it returns exactly when
\* an attempt read ACK, at that attempt; every other outcome (NACK, another
\* line, end of stream, silence) uses up one attempt; it raises exactly after
\* 3 attempts without ACK.
C17_ThreeAttempts ==
    ps.st # "idle" =>
        /\ Writes <= 3
        /\ ps.st = "ok" <=> (ps.replies # <<>> /\ ps.replies[Len(ps.replies)] = "ACK")
        /\ \A i \in DOMAIN ps.replies : ps.replies[i] = "ACK" => i = Len(ps.replies)
        /\ ps.st = "raised" <=> (Len(ps.replies) = 3 /\ \A i \in 1..3 : ps.replies[i] # "ACK")
        /\ ps.st = "await" => (ps.retry = 3 - Len(ps.replies) /\ ps.retry > 0)

\* C17 witness: packet_send raised after a NACK, a payload line and a silence.
C17_Witness ==
    /\ ps.st = "raised"
    /\ \E i, j, k \in 1..3 :
          ps.replies[i] = "NACK" /\ ps.replies[j] = "chat hi" /\ ps.replies[k] = "silence"

\* a line that is none of X, GRID, ACK
Checked(l) == Strip(l) \notin {LineX, LineGRID, LineACK}

\* its first 8 characters are no hexadecimal number
MalformedHeader(l) == ParseHex(Slice(Strip(l), 0, 8))[1] < 0

\* its checksum is that of the rest of the line
ChecksumMatches(l) ==
    ParseHex(Slice(Strip(l), 0, 8)) = crc32(Slice(Strip(l), 9, Len(Strip(l))))

\* C18: when the client receives a line that is not a control line, if the
\* header is malformed or the checksum does not match it replies NACK, its
\* flags playing, can_input and stop_spam stay as they were and the receiver
\* goes on receiving; if the checksum matches it replies ACK.
C18_BadFrameNacked ==
    [][(ClientRecv /\ Checked(net.line)) =>
          IF MalformedHeader(net.line) \/ ~ChecksumMatches(net.line)
          THEN /\ net'.reply = "NACK"
               /\ cl'.playing = cl.playing
               /\ cl'.can_input = cl.can_input
               /\ cl'.stop_spam = cl.stop_spam
               /\ cl'.rx = "recv"
          ELSE net'.reply = "ACK"]_vars

\* C19: in player role a game command is written only when can_input is set,
\* and writing it clears can_input; quit and chat lines (of at most 100
\* characters) are written in every state of the client.
C19_InputRules ==
    [][\A c \in Commands : ClientInput(c) =>
          /\ (cl.playing /\ c.kind = "game" /\ cl'.wrote = "game")
                => (cl.can_input /\ ~cl'.can_input)
          /\ (c.kind \in {"quit", "chat"} /\ c.len <= MAX_INPUT)
                => cl'.wrote = c.kind]_vars

\* C20: a frame of packet_send for (tag, body) that reached the client
\* unchanged was acknowledged, and the client acted on that tag and printed
\* that body.
C20_RoundTrip ==
    (net.sent # <<>> /\ ~net.tampered /\ net.line = <<>> /\ net.reply # "")
        => (net.reply = "ACK" /\ net.shown = net.sent)

\* a poll that called fire_at
Fires == turn.st = "poll" /\ turn'.timed_out = turn.timed_out /\ turn'.fire # NoFire

\* C21: once fire_at returned hit or miss for a cell, every later fire_at at
\* that cell returns already_shot; and a fire_at that returns already_shot
\* leaves the hidden grid, the display grid and every ship's positions as they
\* were.
C21_FiredCellStaysShot ==
    [][Fires =>
          /\ turn'.fire.cell \in bd.shot => turn'.fire.result = "already_shot"
          /\ turn'.fire.result = "already_shot" =>
                /\ bd'.hidden_grid = bd.hidden_grid
                /\ bd'.display_grid = bd.display_grid
                /\ bd'.placed_ships = bd.placed_ships]_vars

\* C21 witness: a cell that was missed and one that was hit have both been
\* fired at again.
C21_Witness ==
    /\ turn.fire.result = "already_shot"
    /\ \E x, y \in bd.shot : bd.hidden_grid[x] = "o" /\ bd.hidden_grid[y] = "X"

\* the cells of ship i that have been hit
HitsOn(b, i) == {x \in b.placed_ships[i].cells : b.hidden_grid[x] = "X"}

\* C22: for every placed ship, at all times, the number of its remaining
\* positions plus the number of its cells that are hit equals its size; and
\* fire_at names a ship as sunk exactly on the shot that empties its
\* positions.
C22_ShipAccounting ==
    [][/\ \A i \in DOMAIN bd'.placed_ships :
             Cardinality(bd'.placed_ships[i].positions)
                 + Cardinality(HitsOn(bd', i)) = SHIPS[i].size
       /\ Fires =>
             \A i \in DOMAIN bd.placed_ships :
                 (turn'.fire.sunk = bd.placed_ships[i].name)
                     <=> (bd.placed_ships[i].positions # {}
                            /\ bd'.placed_ships[i].positions = {})]_vars

\* the line is no coordinate-and-orientation pair, or its coordinate is not a
\* cell of the board, or the ship would leave the grid or cover a used cell
MustReject(cmd) ==
    \/ Len(cmd) # 2
    \/ Upper(cmd[2]) \notin {"H", "V"}
    \/ validate_coordinate(cmd[1]) = <<>>
    \/ LET rc == validate_coordinate(cmd[1])
           sp == Span(rc[1], rc[2], SHIPS[Len(bd.placed_ships) + 1].size,
                      IF Upper(cmd[2]) = "H" THEN 0 ELSE 1)
       IN  \E x \in sp : x \notin Cells \/ bd.hidden_grid[x] # "."

\* C23: during placement every line that must be rejected is answered with a
\* tag-0 error and the prompt, and leaves the board and the placement worker as
\* they were; and every position a ship holds is a cell of the board, the one
\* marked for it on the hidden grid.
C23_PlacementRejects ==
    [][/\ \A cmd \in PlaceCommands :
             (PlaceInput(cmd) /\ MustReject(cmd)) =>
                 /\ bd'.answer \in {"format", "coordinate", "orientation", "cannot"}
                 /\ bd'.prompted
                 /\ bd'.worker = "placing"
                 /\ bd'.hidden_grid = bd.hidden_grid
                 /\ bd'.placed_ships = bd.placed_ships
       /\ \A i \in DOMAIN bd'.placed_ships :
             /\ bd'.placed_ships[i].positions \subseteq Cells
             /\ bd'.placed_ships[i].positions \subseteq bd'.placed_ships[i].cells]_vars

\* the text is a row letter of the board followed by a column number of the
\* board, in either case of the letter
OnBoard(t) ==
    /\ \E i \in 2..(BOARD_SIZE + 1) : Letters[i] = Upper(t[1])
    /\ IntOf(Tail(t)) \in 1..BOARD_SIZE

\* the cell such a text names
CellOf(t) == <<LetterOrd(Upper(t[1])) - 65, IntOf(Tail(t)) - 1>>

\* the results of a turn that ended with a shot
ShotResults == {"turn_completed", "game_finished"}

\* a poll of the turn loop: a step of a call in its loop that is not the timer's
Polls == turn.st = "poll" /\ turn'.timed_out = turn.timed_out

\* C24: in a poll that reaches the active player's line, a line that names no
\* cell of the board is answered with the invalid-coordinate prompt and a cell
\* already fired at with the already-fired prompt; both leave the board and the
\* timer flag as they were and the call in its loop.  A turn ends with a shot
\* only on a line that names a cell of the board not yet fired at.
C24_RejectedShots ==
    [][Polls =>
          LET c == turn'.command
              o == turn'.other_command
          IN  /\ (~turn.timed_out /\ o.kind # "quit" /\ c.kind = "text"
                    /\ ~OnBoard(c.text))
                   => (turn'.reply = "invalid" /\ bd' = bd /\ turn'.st = "poll"
                         /\ turn'.timed_out = turn.timed_out)
              /\ (~turn.timed_out /\ o.kind # "quit" /\ c.kind = "text"
                    /\ OnBoard(c.text) /\ CellOf(c.text) \in bd.shot)
                   => (turn'.reply = "already" /\ bd' = bd /\ turn'.st = "poll"
                         /\ turn'.timed_out = turn.timed_out)
              /\ turn'.result \in ShotResults
                   => (c.kind = "text" /\ OnBoard(c.text)
                         /\ CellOf(c.text) \notin bd.shot
                         /\ turn'.fire.cell = CellOf(c.text))]_vars

\* C24 witness: the active player has typed, with a lower-case letter, a cell
\* already fired at and is still in the same turn.
C24_Witness ==
    /\ turn.st = "poll"
    /\ turn.reply = "already"
    /\ turn.command.kind = "text"
    /\ Upper(turn.command.text[1]) # turn.command.text[1]

\* the placement is over and no cell of the hidden grid still shows a ship
AllCellsHit(b) == b.worker = "finished" /\ \A x \in Cells : b.hidden_grid[x] # "S"

\* C25: a turn that ends with a shot returns game_finished exactly when the
\* shot left every ship without remaining positions; and as soon as every ship
\* cell of the hidden grid is hit, the turn has returned game_finished (after
\* which no turn is started).
C25_FinishedIffAllSunk ==
    [][/\ (Polls /\ turn'.result \in ShotResults) =>
             (turn'.result = "game_finished" <=> all_ships_sunk(bd'))
       /\ AllCellsHit(bd') => turn'.result = "game_finished"]_vars

\* the results a poll returns without looking for a coordinate
EarlyResults == {"timeout", "all_forfeit", "other_player_dc", "player_dc"}

\* C26: a poll returns timeout if the timer flag is set; else all_forfeit if
\* both players sent quit; else other_player_dc if the waiting player sent
\* quit; else player_dc if the active player sent quit; and only in the
\* remaining polls is the active player's line read as a coordinate: a poll
\* that returns one of these four results fires no shot and leaves the board
\* as it was.
C26_PollPrecedence ==
    [][Polls =>
          LET c == turn'.command.kind
              o == turn'.other_command.kind
          IN  /\ turn.timed_out => turn'.result = "timeout"
              /\ (~turn.timed_out /\ o = "quit" /\ c = "quit")
                   => turn'.result = "all_forfeit"
              /\ (~turn.timed_out /\ o = "quit" /\ c # "quit")
                   => turn'.result = "other_player_dc"
              /\ (~turn.timed_out /\ o # "quit" /\ c = "quit")
                   => turn'.result = "player_dc"
              /\ turn'.result \in EarlyResults
                   => (turn.timed_out \/ o = "quit" \/ c = "quit")
              /\ turn'.result \in EarlyResults
                   => (bd' = bd /\ turn'.fire = NoFire)
              /\ turn'.fire # NoFire
                   => (~turn.timed_out /\ o # "quit" /\ c = "text")]_vars

\* C26 witness: the waiting player's quit arrived in the same poll as a
\* coordinate of the active player that names a cell not yet fired at.
C26_Witness ==
    /\ turn.result = "other_player_dc"
    /\ turn.command.kind = "text"
    /\ OnBoard(turn.command.text)
    /\ CellOf(turn.command.text) \notin bd.shot

\* C27: every completed turn and every timeout after which the match goes on
\* passes the turn to the other player, and a completed turn clears the
\* completing player's skipped flag; a reconnect that succeeds leaves the turn
\* where it was; so the player who completes a turn is never the one whose
\* turn was the latest to be completed or to time out.
C27_TurnsAlternate ==
    [][\A g \in Handlers :
          LET cur == game[g].current_player IN
          /\ GTurn(g, "turn_completed") =>
                /\ game'[g].current_player = 1 - cur
                /\ ~game'[g].skipped[cur + 1]
                /\ game[g].lastTurn # cur
          /\ (GTurn(g, "timeout") /\ game'[g].gpc = "turn") =>
                /\ game'[g].current_player = 1 - cur
                /\ game[g].lastTurn # cur
          /\ GPollClaim(g, TRUE) => game'[g].current_player = cur
          /\ (game[g].gpc \in {"turn", "reconnect"} /\ game'[g].gpc = "turn"
                /\ game'[g].current_player # cur)
               => (GTurn(g, "turn_completed") \/ GTurn(g, "timeout"))]_vars

\* C27 witness: a turn was completed, the opponent's next turn was interrupted
\* by a disconnection and resumed after the reconnect.
C27_Witness ==
    \E g \in Handlers :
        /\ game[g].gpc = "turn"
        /\ game[g].welcomed # None
        /\ game[g].lastTurn = 1 - game[g].current_player

\* handler h is inside the second loop of configure_game, holding a player 1
\* that passed the probe
HoldsPlayer1(h) == pc[h] \in {"cfg2", "pop2"}

\* C28: a call of configure_game starts the match with the player 1 it holds
\* and the next client popped that passes the probe; a client that fails the
\* probe is not in the queue afterwards; and a call that ends without starting
\* a match leaves game_running false and the client that passed the probe, if
\* there is one, at the front of the queue.
C28_Matchmaking ==
    [][\A h \in Handlers :
          /\ Pop2(h, TRUE) /\ pc'[h] = "join" =>
                game'[h].players = <<player1[h], Head(client_queue)>>
          /\ ((Pop1(h, FALSE) \/ Pop2(h, FALSE)) /\ client_queue # <<>>) =>
                ~\E i \in DOMAIN client_queue' :
                    client_queue'[i] = Head(client_queue)
          /\ (pc[h] \in {"cfg1", "pop1", "cfg2", "pop2"}
                /\ pc'[h] \in {"test_gr", "done"}) =>
                /\ ~game_running'
                /\ HoldsPlayer1(h) =>
                      /\ client_queue' # <<>>
                      /\ Head(client_queue') = player1[h]]_vars

\* C30: when the chat thread of a spectator ends on a transport failure (its
\* packet_send raised BrokenPipeError), the spectator's session is no longer in
\* the lobby queue, so that it neither counts toward the capacity nor is
\* offered to the matchmaker.
C30_DeadSpectatorReaped ==
    [][\A t \in chat :
          ChatGreeted(t, FALSE) =>
              ~\E i \in DOMAIN client_queue' : client_queue'[i] = t.s]_vars

\* ------------------------------------------- configure_game lines 192-200

\* the `for client in self.client_queue` of line 192, run by handler h: dirty
\* says that the deque was changed since the iterator was made
Iterator(h, dirty) == [h |-> h, dirty |-> dirty]

\* every open iterator sees a change of the deque
Mutated ==
    spawn' = IF client_queue' # client_queue
             THEN {Iterator(r.h, TRUE) : r \in spawn}
             ELSE spawn

\* configure_game lines 171-192: with two live players the game thread is
\* started and the loop over the queue is entered
Pop2Iter(h, live) ==
    /\ Pop2(h, live)
    /\ spawn' = {Iterator(r.h, TRUE) : r \in spawn}
                   \cup (IF pc'[h] = "join" THEN {Iterator(h, FALSE)} ELSE {})

\* configure_game lines 192-197: the loop goes on to its end and the handler
\* reaches join(); or the deque was changed under the iterator, whose next step
\* raises RuntimeError ("deque mutated during iteration"): nothing catches
\* it, and the handler thread ends before lines 199-200.
SpawnNext(h) ==
    /\ \E r \in spawn :
          /\ r.h = h
          /\ spawn' = spawn \ {r}
          /\ pc' = IF r.dirty THEN [pc EXCEPT ![h] = "done"] ELSE pc
    /\ UNCHANGED <<client_queue, game_running, dced_player, rced_player, lock,
                   cname, player1, game, rounds>>

\* configure_game line 199: join() is reached after the loop
JoinAfterLoop(h) ==
    /\ \A r \in spawn : r.h # h
    /\ JoinReturn(h)

\* SpecLive: the matchmaker from the start of a match to its return.  Clients
\* connect one after the other.
NextLive ==
    \/ \E u \in NextNames : Quiet /\ Len(pc) < LiveConn /\ Connect(u)
          /\ UNCHANGED aux
    \/ \E h \in Handlers : AcquireLock(h) /\ UNCHANGED aux
    \/ \E h \in Handlers, a, b \in BOOLEAN :
          Handle(h, a, b) /\ Mutated /\ UNCHANGED others
    \/ \E h \in Handlers : TestRunning(h) /\ UNCHANGED aux
    \/ \E h \in Handlers : TestLen(h) /\ UNCHANGED aux
    \/ \E h \in Handlers : rounds < MaxRounds /\ SetRunning(h) /\ UNCHANGED aux
    \/ \E h \in Handlers : Cfg1Check(h) /\ UNCHANGED aux
    \/ \E h \in Handlers, live \in BOOLEAN :
          Pop1(h, live) /\ Mutated /\ UNCHANGED others
    \/ \E h \in Handlers : Cfg2Check(h) /\ Mutated /\ UNCHANGED others
    \/ \E h \in Handlers, live \in BOOLEAN : Pop2Iter(h, live) /\ UNCHANGED others
    \/ \E h \in Handlers : SpawnNext(h) /\ UNCHANGED others
    \/ \E h \in Handlers : JoinAfterLoop(h) /\ UNCHANGED aux
    \/ \E g \in Handlers, a \in BOOLEAN : GWelcome(g, a) /\ UNCHANGED aux
    \/ \E g \in Handlers, b0, b1 \in BOOLEAN, f \in {0, 1} :
          GPlacement(g, b0, b1, f) /\ UNCHANGED aux
    \/ \E g \in Handlers, a \in BOOLEAN :
          GCancel(g, a) /\ Mutated /\ UNCHANGED others
    \/ \E g \in Handlers, r \in ExitResults : GTurn(g, r) /\ UNCHANGED aux
    \/ \E g \in Handlers, a \in BOOLEAN : GPollClaim(g, a) /\ UNCHANGED aux
    \/ \E g \in Handlers : GPollFail(g) /\ UNCHANGED aux
    \/ \E g \in Handlers, conn \in SUBSET {1, 2}, w \in BOOLEAN, k \in 0..2 :
          GEnding(g, conn, w, k) /\ Mutated /\ UNCHANGED others

\* every thread that can take a step takes one: the handler threads and the
\* run_game threads are scheduled by the interpreter, and each of their steps
\* ends (the probes and packet_send by an answer, an error or a timeout,
\* client_reconnected after 60 polls)
ThreadsRun ==
    /\ WF_vars(\E h \in Handlers : AcquireLock(h) /\ UNCHANGED aux)
    /\ WF_vars(\E h \in Handlers, a, b \in BOOLEAN :
                  Handle(h, a, b) /\ Mutated /\ UNCHANGED others)
    /\ WF_vars(\E h \in Handlers : TestRunning(h) /\ UNCHANGED aux)
    /\ WF_vars(\E h \in Handlers : TestLen(h) /\ UNCHANGED aux)
    /\ WF_vars(\E h \in Handlers : rounds < MaxRounds /\ SetRunning(h) /\ UNCHANGED aux)
    /\ WF_vars(\E h \in Handlers : Cfg1Check(h) /\ UNCHANGED aux)
    /\ WF_vars(\E h \in Handlers, live \in BOOLEAN :
                  Pop1(h, live) /\ Mutated /\ UNCHANGED others)
    /\ WF_vars(\E h \in Handlers : Cfg2Check(h) /\ Mutated /\ UNCHANGED others)
    /\ WF_vars(\E h \in Handlers, live \in BOOLEAN :
                  Pop2Iter(h, live) /\ UNCHANGED others)
    /\ WF_vars(\E h \in Handlers : SpawnNext(h) /\ UNCHANGED others)
    /\ WF_vars(\E h \in Handlers : JoinAfterLoop(h) /\ UNCHANGED aux)
    /\ WF_vars(\E g \in Handlers, a \in BOOLEAN : GWelcome(g, a) /\ UNCHANGED aux)
    /\ WF_vars(\E g \in Handlers, b0, b1 \in BOOLEAN, f \in {0, 1} :
                  GPlacement(g, b0, b1, f) /\ UNCHANGED aux)
    /\ WF_vars(\E g \in Handlers, a \in BOOLEAN :
                  GCancel(g, a) /\ Mutated /\ UNCHANGED others)
    /\ WF_vars(\E g \in Handlers, r \in ExitResults : GTurn(g, r) /\ UNCHANGED aux)
    /\ WF_vars(\E g \in Handlers, a \in BOOLEAN : GPollClaim(g, a) /\ UNCHANGED aux)
    /\ WF_vars(\E g \in Handlers : GPollFail(g) /\ UNCHANGED aux)
    /\ WF_vars(\E g \in Handlers, conn \in SUBSET {1, 2}, w \in BOOLEAN, k \in 0..2 :
                  GEnding(g, conn, w, k) /\ Mutated /\ UNCHANGED others)

SpecLive == Init /\ [][NextLive]_vars /\ ThreadsRun

\* C29: once a run_game thread has ended, whatever its outcome, game_running
\* eventually becomes false; and a handler back from configure_game that finds
\* the flag false and two sessions in the queue eventually begins a new
\* matchmaking attempt (which sets the flag).
C29_RunningCleared ==
    /\ \A g \in 1..LiveConn :
          (g \in Handlers /\ game[g].gpc = "done") ~> ~game_running
    /\ \A h \in 1..LiveConn :
          (/\ h \in Handlers
           /\ pc[h] = "test_gr"
           /\ ~game_running
           /\ Len(client_queue) >= 2
           /\ rounds < MaxRounds) ~> game_running

\* C31: of the frames that the broadcast of a spectator's chat line writes,
\* the tag-4 echo goes to the session the line came from and to no other, and
\* every other member of the queue is written the tag-3 frame, also when
\* members share a username.
C31_EchoOnlyToOrigin ==
    \A t \in chat :
        \A i \in DOMAIN t.out :
            /\ t.out[i].tag \in {3, 4}
            /\ t.out[i].tag = 4 <=> t.out[i].to = t.s

\* C32: when packet_send returns, the ACK it read answers a frame written by
\* this call: an ACK that the client wrote for a frame of an earlier call is
\* never taken for the acknowledgement of the frame of a later call.
C32_AckOfThisFrame == ps.st = "ok" => ~ps.stale

\* C33: a reconnect that succeeds replaces the session of the disconnected
\* player only: the other player's session, the boards, the skipped flags and
\* the active index stay as they were, also when both players registered the
\* same username.
C33_OnlySlotReplaced ==
    [][\A g \in Handlers :
          GPollClaim(g, TRUE) =>
              LET other == 2 - game[g].dcIdx IN
              /\ game'[g].players[other] = game[g].players[other]
              /\ game'[g].boards = game[g].boards
              /\ game'[g].skipped = game[g].skipped
              /\ game'[g].current_player = game[g].current_player]_vars

====
